---- MODULE Spec2Model ----
(***************************************************************************)
(* Approved-listing retrieval of roverpass-park-sale: the query builder,   *)
(* the remote store that executes the query, and the row normalizer of     *)
(* fetchApprovedListings, fetchFeaturedApprovedListings,                   *)
(* fetchApprovedListingById and countApprovedListings; and the route table *)
(* of the application shell.                                               *)
(*                                                                         *)
(* Conventions.  A value that may be null/undefined is a sequence of       *)
(* length 0 (None) or 1 (Some(v)).  A text is a sequence of one-character  *)
(* strings, so that trimming, case folding and pattern matching are        *)
(* computed and not assumed.                                               *)
(***************************************************************************)
EXTENDS Integers, Sequences, FiniteSets, TLC

VARIABLES store, pc, op, filters, reqId, query, issued, response, result, raised,
          other, hostname, auth, location, screen, adminRoute,
          authSection, profileImageCache, dateNow, profileImages, userProfile,
          emailSubscriptions, submissions, support

vars ==
    <<store, pc, op, filters, reqId, query, issued, response, result, raised,
      other, hostname, auth, location, screen, adminRoute,
      authSection, profileImageCache, dateNow, profileImages, userProfile,
      emailSubscriptions, submissions, support>>

\* The header's AuthSection, the module's profileImageCache and the clock.
headerVars == <<authSection, profileImageCache, dateNow>>

\* The profile_images table and the UserProfile page.
profileVars == <<profileImages, userProfile>>

\* The email_subscriptions table and the submissions of the newsletter form.
indexVars == <<emailSubscriptions, submissions>>

pages == <<headerVars, profileVars, indexVars, support>>

\* The application shell: the host it is served from, the authentication
\* state, the router's location, what AppRoutes renders and the state of the
\* AdminRoute component; and the pages.
frontend == <<hostname, auth, location, screen, adminRoute, pages>>

----------------------------------------------------------------------------
(* Optional values *)

None == <<>>

Some(v) == <<v>>

IsSome(x) == x # <<>>

Val(x) == x[1]

----------------------------------------------------------------------------
(* Texts *)

\* String.prototype.toLowerCase / the case folding of ILIKE, on the letters
\* of the model's alphabet.
Lower(c) ==
    CASE c = "A" -> "a"
      [] c = "B" -> "b"
      [] c = "T" -> "t"
      [] c = "X" -> "x"
      [] OTHER -> c

LowerText(s) == [i \in 1..Len(s) |-> Lower(s[i])]

RECURSIVE TrimStart(_)
TrimStart(s) == IF s # <<>> /\ Head(s) = " " THEN TrimStart(Tail(s)) ELSE s

RECURSIVE TrimEnd(_)
TrimEnd(s) ==
    IF s # <<>> /\ s[Len(s)] = " " THEN TrimEnd(SubSeq(s, 1, Len(s) - 1)) ELSE s

\* String.prototype.trim
Trim(s) == TrimEnd(TrimStart(s))

\* column ILIKE pattern: % matches any run of characters, _ matches any one
\* character, every other character matches itself up to case.
RECURSIVE ILike(_, _)
ILike(s, pat) ==
    IF pat = <<>> THEN s = <<>>
    ELSE IF Head(pat) = "%"
         THEN ILike(s, Tail(pat)) \/ (s # <<>> /\ ILike(Tail(s), pat))
         ELSE /\ s # <<>>
              /\ (Head(pat) = "_" \/ Lower(Head(pat)) = Lower(Head(s)))
              /\ ILike(Tail(s), Tail(pat))

----------------------------------------------------------------------------
(* The query the client sends *)

StatusApproved == "approved"

SearchColumns == <<"title", "description", "city", "state">>

\* `%${filters.search.trim()}%`
SearchPattern(search) == <<"%">> \o Trim(search) \o <<"%">>

\* One alternative of the or-string: `title.ilike.${searchTerm}`.
OrAlternative(col, pattern) == <<col, ".", "ilike", ".">> \o pattern

RECURSIVE JoinComma(_)
JoinComma(parts) ==
    IF parts = <<>> THEN <<>>
    ELSE IF Len(parts) = 1 THEN parts[1]
         ELSE parts[1] \o <<",">> \o JoinComma(Tail(parts))

\* The argument of query.or(...): the four alternatives joined by commas,
\* the search term pasted in as typed.
OrString(search) ==
    JoinComma([i \in 1..Len(SearchColumns) |->
                  OrAlternative(SearchColumns[i], SearchPattern(search))])

\* One constraint of the query: .eq(col, v), .gte(col, v), .lte(col, v) or
\* .or(str).
Term(kind, col, arg) == [kind |-> kind, col |-> col, arg |-> arg]

\* priceMin applied from 0 on.
priceMinFilterFromZero(f) ==
    IF IsSome(f.priceMin) /\ Val(f.priceMin) >= 0
    THEN <<Term("gte", "price", Val(f.priceMin))>> ELSE <<>>

\* filters.priceMin !== undefined && filters.priceMin > 0
priceMinFilter(f) ==
    IF IsSome(f.priceMin) /\ Val(f.priceMin) > 0
    THEN <<Term("gte", "price", Val(f.priceMin))>> ELSE <<>>

PriceMaxSentinel == 10000000

\* priceMax applied at the sentinel too.
priceMaxFilterAtSentinel(f) ==
    IF IsSome(f.priceMax) /\ Val(f.priceMax) <= PriceMaxSentinel
    THEN <<Term("lte", "price", Val(f.priceMax))>> ELSE <<>>

\* filters.priceMax !== undefined && filters.priceMax < 10000000
priceMaxFilter(f) ==
    IF IsSome(f.priceMax) /\ Val(f.priceMax) < PriceMaxSentinel
    THEN <<Term("lte", "price", Val(f.priceMax))>> ELSE <<>>

\* state matched as a pattern, whatever the case.
stateFilterAnyCase(f) ==
    IF IsSome(f.state) /\ Val(f.state) # <<>>
    THEN <<Term("ilike", "state", Val(f.state))>> ELSE <<>>

\* filters.state && filters.state !== ''
stateFilter(f) ==
    IF IsSome(f.state) /\ Val(f.state) # <<>>
    THEN <<Term("eq", "state", Val(f.state))>> ELSE <<>>

\* filters.sitesMin !== undefined && filters.sitesMin > 0
sitesMinFilter(f) ==
    IF IsSome(f.sitesMin) /\ Val(f.sitesMin) > 0
    THEN <<Term("gte", "num_sites", Val(f.sitesMin))>> ELSE <<>>

SitesMaxSentinel == 1000

\* sitesMax applied at the sentinel too.
sitesMaxFilterAtSentinel(f) ==
    IF IsSome(f.sitesMax) /\ Val(f.sitesMax) <= SitesMaxSentinel
    THEN <<Term("lte", "num_sites", Val(f.sitesMax))>> ELSE <<>>

\* filters.sitesMax !== undefined && filters.sitesMax < 1000
sitesMaxFilter(f) ==
    IF IsSome(f.sitesMax) /\ Val(f.sitesMax) < SitesMaxSentinel
    THEN <<Term("lte", "num_sites", Val(f.sitesMax))>> ELSE <<>>

\* filters.capRateMin !== undefined && filters.capRateMin > 0
capRateMinFilter(f) ==
    IF IsSome(f.capRateMin) /\ Val(f.capRateMin) > 0
    THEN <<Term("gte", "cap_rate", Val(f.capRateMin))>> ELSE <<>>

\* filters.occupancyRateMin !== undefined && filters.occupancyRateMin > 0
occupancyRateMinFilter(f) ==
    IF IsSome(f.occupancyRateMin) /\ Val(f.occupancyRateMin) > 0
    THEN <<Term("gte", "occupancy_rate", Val(f.occupancyRateMin))>> ELSE <<>>

\* filters.search && filters.search.trim() !== ''
searchFilter(f) ==
    IF IsSome(f.search) /\ Val(f.search) # <<>> /\ Trim(Val(f.search)) # <<>>
    THEN <<Term("or", "", OrString(Val(f.search)))>> ELSE <<>>

\* The query without its status constraint.
approvedOnlyOmitted == <<>>

\* .eq('status', 'approved'), first constraint of every query
approvedOnly == <<Term("eq", "status", StatusApproved)>>

Query(terms, order, limit, single, head) ==
    [terms |-> terms, order |-> order, limit |-> limit,
     single |-> single, head |-> head]

\* The query of fetchApprovedListings; fo is the optional filters argument.
ListQuery(fo) ==
    Query(approvedOnly \o
            (IF IsSome(fo)
             THEN LET f == Val(fo) IN
                  priceMinFilter(f) \o priceMaxFilter(f) \o stateFilter(f)
                  \o sitesMinFilter(f) \o sitesMaxFilter(f)
                  \o capRateMinFilter(f) \o occupancyRateMinFilter(f)
                  \o searchFilter(f)
             ELSE <<>>),
          "none", None, FALSE, FALSE)

FeaturedLimit == 3

\* The first three approved rows in table order.
FeaturedQueryUnordered ==
    Query(approvedOnly, "none", Some(FeaturedLimit), FALSE, FALSE)

\* .eq('status','approved').order('created_at', {ascending: false}).limit(3)
FeaturedQuery ==
    Query(approvedOnly, "created_at.desc", Some(FeaturedLimit), FALSE, FALSE)

\* The row of that id, whatever its status.
ByIdQueryAnyStatus(id) ==
    Query(<<Term("eq", "id", id)>>, "none", None, TRUE, FALSE)

\* .eq('id', id).eq('status', 'approved').single()
ByIdQuery(id) ==
    Query(<<Term("eq", "id", id)>> \o approvedOnly, "none", None, TRUE, FALSE)

\* Every row counted.
CountQueryAllRows == Query(<<>>, "none", None, FALSE, TRUE)

\* .select('id', {count: 'exact', head: true}).eq('status', 'approved')
CountQuery == Query(approvedOnly, "none", None, FALSE, TRUE)

----------------------------------------------------------------------------
(* The store: how the listings table answers a query *)

NumCol(row, col) ==
    CASE col = "price" -> row.price
      [] col = "num_sites" -> row.num_sites
      [] col = "cap_rate" -> row.cap_rate
      [] col = "occupancy_rate" -> row.occupancy_rate

TextCol(row, col) ==
    CASE col = "title" -> row.title
      [] col = "description" -> row.description
      [] col = "city" -> row.city
      [] col = "state" -> row.state
      [] col = "address" -> row.address

FilterColumns == {"title", "description", "city", "state", "address"}

\* The pieces of a token sequence between its commas.
RECURSIVE SplitComma(_, _)
SplitComma(tokens, piece) ==
    IF tokens = <<>> THEN <<piece>>
    ELSE IF Head(tokens) = ","
         THEN <<piece>> \o SplitComma(Tail(tokens), <<>>)
         ELSE SplitComma(Tail(tokens), Append(piece, Head(tokens)))

\* One member of a logic tree must read column.operator.value; the value
\* runs to the next comma.
WellFormedAlternative(piece) ==
    /\ Len(piece) >= 4
    /\ piece[1] \in FilterColumns
    /\ piece[2] = "."
    /\ piece[3] = "ilike"
    /\ piece[4] = "."

Alternative(piece) ==
    [col |-> piece[1], pattern |-> SubSeq(piece, 5, Len(piece))]

\* The store parses the or-string it receives; a member that does not parse
\* makes the whole request fail.
ParsesOr(str) ==
    LET pieces == SplitComma(str, <<>>) IN
    \A i \in 1..Len(pieces) : WellFormedAlternative(pieces[i])

MatchesOr(row, str) ==
    LET pieces == SplitComma(str, <<>>) IN
    \E i \in 1..Len(pieces) :
        LET a == Alternative(pieces[i]) IN
        /\ IsSome(TextCol(row, a.col))
        /\ ILike(Val(TextCol(row, a.col)), a.pattern)

\* Comparisons with a NULL column are not true.
Satisfies(row, t) ==
    CASE t.kind = "eq" /\ t.col = "status" -> row.status = t.arg
      [] t.kind = "eq" /\ t.col = "id" -> row.id = t.arg
      [] t.kind = "eq" /\ t.col = "state" ->
            IsSome(row.state) /\ Val(row.state) = t.arg
      [] t.kind = "gte" ->
            IsSome(NumCol(row, t.col)) /\ Val(NumCol(row, t.col)) >= t.arg
      [] t.kind = "lte" ->
            IsSome(NumCol(row, t.col)) /\ Val(NumCol(row, t.col)) <= t.arg
      [] t.kind = "ilike" ->
            IsSome(TextCol(row, t.col)) /\ ILike(Val(TextCol(row, t.col)), t.arg)
      [] t.kind = "or" -> MatchesOr(row, t.arg)

QueryParses(q) ==
    \A i \in 1..Len(q.terms) : q.terms[i].kind = "or" => ParsesOr(q.terms[i].arg)

Matching(rows, q) ==
    LET Keep(row) == \A i \in 1..Len(q.terms) : Satisfies(row, q.terms[i])
    IN  SelectSeq(rows, Keep)

\* NULL sorts as larger than every value.
Later(a, b) == (a = None /\ b # None) \/ (a # None /\ b # None /\ Val(a) > Val(b))

\* created_at DESC: later rows first, rows of equal time in table order.
RECURSIVE InsertDesc(_, _)
InsertDesc(row, sorted) ==
    IF sorted = <<>> THEN <<row>>
    ELSE IF Later(row.created_at, Head(sorted).created_at)
         THEN <<row>> \o sorted
         ELSE <<Head(sorted)>> \o InsertDesc(row, Tail(sorted))

RECURSIVE SortDesc(_)
SortDesc(rows) ==
    IF rows = <<>> THEN <<>>
    ELSE InsertDesc(rows[Len(rows)], SortDesc(SubSeq(rows, 1, Len(rows) - 1)))

Ordered(rows, q) == IF q.order = "created_at.desc" THEN SortDesc(rows) ELSE rows

Limited(rows, q) ==
    IF IsSome(q.limit) /\ Len(rows) > Val(q.limit)
    THEN SubSeq(rows, 1, Val(q.limit)) ELSE rows

Reply(kind, cause, rows, count) ==
    [kind |-> kind, cause |-> cause, rows |-> rows, count |-> count]

\* What `await query` yields when the request reaches the store: {data, error}
\* (kind "data" or "error"; the client reads only whether error is set, cause
\* records why).  A query that does not parse is an error; .single() is an
\* error unless exactly one row is selected; head: true returns the count and
\* no rows.
Execute(rows, q) ==
    IF ~QueryParses(q) THEN Reply("error", "parse", <<>>, None)
    ELSE LET selected == Limited(Ordered(Matching(rows, q), q), q) IN
         IF q.single /\ Len(selected) # 1 THEN Reply("error", "single", <<>>, None)
         ELSE IF q.head THEN Reply("data", "none", <<>>, Some(Len(selected)))
         ELSE Reply("data", "none", selected, None)

----------------------------------------------------------------------------
(* The normalizer *)

\* supabase.storage.from('listing-images').getPublicUrl(path).data.publicUrl
getPublicUrl(path) == [bucket |-> "listing-images", path |-> path]

\* A missing collection throws as a null entry does.
ImagesThrowWhenMissing(li) ==
    ~IsSome(li) \/ \E i \in 1..Len(Val(li)) : Val(li)[i] = None

\* img.storage_path and img.is_primary of an entry that is null throw.
ImagesThrow(li) == IsSome(li) /\ \E i \in 1..Len(Val(li)) : Val(li)[i] = None

\* listing.listing_images?.map(img => getPublicUrl(img.storage_path)) || []
ResolvedUrls(li) ==
    IF IsSome(li)
    THEN [i \in 1..Len(Val(li)) |-> getPublicUrl(Val(Val(li)[i]).storage_path)]
    ELSE <<>>

\* listing_images.findIndex(img => img.is_primary): the 0-based index of the
\* first entry flagged primary, -1 when there is none.
FindPrimaryIndex(entries) ==
    IF \E i \in 1..Len(entries) : Val(entries[i]).is_primary
    THEN (CHOOSE i \in 1..Len(entries) :
             /\ Val(entries[i]).is_primary
             /\ \A j \in 1..(i - 1) : ~Val(entries[j]).is_primary) - 1
    ELSE -1

primaryImageIndex(li) ==
    IF IsSome(li) /\ Len(Val(li)) > 0 THEN FindPrimaryIndex(Val(li)) ELSE -1

\* The primary image exchanged with the first one.
SwapWithFirst(images, k) ==
    [i \in 1..Len(images) |->
        IF i = 1 THEN images[k + 1] ELSE IF i = k + 1 THEN images[1] ELSE images[i]]

\* The primary image put first without being taken out.
UnshiftWithoutSplice(images, k) == <<images[k + 1]>> \o images

\* images.splice(k, 1); images.unshift(primaryImage), k 0-based
MoveToFront(images, k) ==
    <<images[k + 1]>> \o SubSeq(images, 1, k) \o SubSeq(images, k + 2, Len(images))

\* The images of a normalized record.
OrderedImages(li) ==
    LET images == ResolvedUrls(li)
        k == primaryImageIndex(li)
    IN  IF k > 0 /\ Len(images) > 0 THEN MoveToFront(images, k) ELSE images

\* x || d for a number: null, undefined and 0 are falsy.
NumOr(x, d) == IF IsSome(x) /\ Val(x) # 0 THEN Val(x) ELSE d

\* x ?? d for a text: only null and undefined give the default.
TextOrNullish(x, d) == IF IsSome(x) THEN Val(x) ELSE d

\* x || d for a text: null, undefined and '' are falsy.
TextOr(x, d) == IF IsSome(x) /\ Val(x) # <<>> THEN Val(x) ELSE d

UntitledListing == <<"Untitled Listing">>

Broker(row) ==
    [id |-> TextOr(row.user_id, <<>>), name |-> "Contact Agent",
     email |-> "contact@example.com", phone |-> "", company |-> "",
     avatar |-> "/default-avatar.png"]

\* The object literal returned for one row; now is new Date().toISOString().
ListingOf(row, featured, now) ==
    [id |-> row.id,
     title |-> TextOr(row.title, UntitledListing),
     description |-> TextOr(row.description, <<>>),
     price |-> NumOr(row.price, 0),
     location |-> [address |-> TextOr(row.address, <<>>),
                   city |-> TextOr(row.city, <<>>),
                   state |-> TextOr(row.state, <<>>),
                   lat |-> NumOr(row.latitude, 0),
                   lng |-> NumOr(row.longitude, 0)],
     numSites |-> NumOr(row.num_sites, 0),
     occupancyRate |-> NumOr(row.occupancy_rate, 0),
     annualRevenue |-> NumOr(row.annual_revenue, 0),
     capRate |-> NumOr(row.cap_rate, 0),
     images |-> OrderedImages(row.listing_images),
     broker |-> Broker(row),
     createdAt |-> IF IsSome(row.created_at) THEN Val(row.created_at) ELSE now,
     featured |-> featured,
     status |-> IF row.status # "" THEN row.status ELSE StatusApproved]

\* try { ... return {...} } catch (itemError) { return null }
NormalizeRow(row, featured, now) ==
    IF ImagesThrow(row.listing_images) THEN None
    ELSE Some(ListingOf(row, featured, now))

\* One failing row fails the whole batch.
NormalizeAllOrNothing(rows, featured, now) ==
    IF \E i \in 1..Len(rows) : NormalizeRow(rows[i], featured, now) = None
    THEN <<>>
    ELSE [i \in 1..Len(rows) |-> Val(NormalizeRow(rows[i], featured, now))]

\* data.map(normalize).filter(item => item !== null)
RECURSIVE NormalizeAll(_, _, _)
NormalizeAll(rows, featured, now) ==
    IF rows = <<>> THEN <<>>
    ELSE NormalizeRow(Head(rows), featured, now)
         \o NormalizeAll(Tail(rows), featured, now)

----------------------------------------------------------------------------
(* What each operation returns for what `await` yielded.  A reply of kind    *)
(* "throw" is a rejected request: the await throws inside the try block.     *)

Returned(value) == [raised |-> FALSE, value |-> value]

\* if (error) return []; if (data && data.length > 0) return data.map(...);
\* return []; catch (error) { return [] }
fetchApprovedListingsReturn(reply, now) ==
    IF reply.kind = "throw" THEN Returned(<<>>)
    ELSE IF reply.kind = "error" THEN Returned(<<>>)
    ELSE IF Len(reply.rows) > 0 THEN Returned(NormalizeAll(reply.rows, FALSE, now))
    ELSE Returned(<<>>)

fetchFeaturedApprovedListingsReturn(reply, now) ==
    IF reply.kind = "throw" THEN Returned(<<>>)
    ELSE IF reply.kind = "error" THEN Returned(<<>>)
    ELSE IF Len(reply.rows) > 0 THEN Returned(NormalizeAll(reply.rows, TRUE, now))
    ELSE Returned(<<>>)

\* The single record flagged as featured.
fetchApprovedListingByIdReturnFeatured(reply, now) ==
    IF reply.kind = "throw" THEN Returned(None)
    ELSE IF reply.kind = "error" THEN Returned(None)
    ELSE IF Len(reply.rows) > 0 THEN Returned(NormalizeRow(reply.rows[1], TRUE, now))
    ELSE Returned(None)

\* .single() yields the row itself; null is None.
fetchApprovedListingByIdReturn(reply, now) ==
    IF reply.kind = "throw" THEN Returned(None)
    ELSE IF reply.kind = "error" THEN Returned(None)
    ELSE IF Len(reply.rows) > 0 THEN Returned(NormalizeRow(reply.rows[1], FALSE, now))
    ELSE Returned(None)

\* A rejected request reaches the caller.
countApprovedListingsUncaught(reply) ==
    IF reply.kind = "throw" THEN [raised |-> TRUE, value |-> 0]
    ELSE IF reply.kind = "error" THEN Returned(0)
    ELSE Returned(NumOr(reply.count, 0))

\* if (error) return 0; return count || 0; catch (error) { return 0 }
countApprovedListingsReturn(reply) ==
    IF reply.kind = "throw" THEN Returned(0)
    ELSE IF reply.kind = "error" THEN Returned(0)
    ELSE Returned(NumOr(reply.count, 0))

----------------------------------------------------------------------------
(* The operations.  A call runs from "idle" to the await ("await"), where    *)
(* its query is in flight, and from the reply to its return ("done").        *)

NoReply == Reply("none", "none", <<>>, None)

NoQuery == Query(<<>>, "none", None, FALSE, FALSE)

\* The reply of a finished overlapping call to the same query is reused.
RepliesCached(rows, q) ==
    IF other.pc = "done" /\ other.query = q THEN {other.response}
    ELSE {Execute(rows, q), Reply("error", "fault", <<>>, None),
          Reply("throw", "network", <<>>, None)}

\* What the await can yield: the store's answer to the query, an error the
\* store reports whatever the query (outage, permission), or a rejection.
Replies(rows, q) ==
    {Execute(rows, q), Reply("error", "fault", <<>>, None),
     Reply("throw", "network", <<>>, None)}

\* A reply without error whose count is null (return count || 0).
NullCount == Reply("data", "nocount", <<>>, None)

\* new Date() at the time of the call
Clock == {100}

Send(name, fo, id, q) ==
    /\ pc' = "await"
    /\ op' = name
    /\ filters' = fo
    /\ reqId' = id
    /\ query' = q
    /\ issued' = issued + 1
    /\ UNCHANGED <<store, response, result, raised, other, frontend>>

\* A failed attempt is made again, once.
CompleteOrRetry(reply, ret) ==
    IF reply.kind # "data" /\ issued < 2
    THEN /\ issued' = issued + 1
         /\ UNCHANGED <<store, pc, op, filters, reqId, query, response, result,
                        raised, other, frontend>>
    ELSE /\ pc' = "done"
         /\ response' = reply
         /\ result' = ret.value
         /\ raised' = ret.raised
         /\ UNCHANGED <<store, op, filters, reqId, query, issued, other, frontend>>

Complete(reply, ret) ==
    /\ pc' = "done"
    /\ response' = reply
    /\ result' = ret.value
    /\ raised' = ret.raised
    /\ UNCHANGED <<store, op, filters, reqId, query, issued, other, frontend>>

fetchApprovedListings(fo) ==
    /\ pc = "idle"
    /\ Send("fetchApprovedListings", fo, 0, ListQuery(fo))

fetchApprovedListingsResume ==
    /\ pc = "await"
    /\ op = "fetchApprovedListings"
    /\ \E reply \in Replies(store, query), now \in Clock :
          Complete(reply, fetchApprovedListingsReturn(reply, now))

fetchFeaturedApprovedListings ==
    /\ pc = "idle"
    /\ Send("fetchFeaturedApprovedListings", None, 0, FeaturedQuery)

fetchFeaturedApprovedListingsResume ==
    /\ pc = "await"
    /\ op = "fetchFeaturedApprovedListings"
    /\ \E reply \in Replies(store, query), now \in Clock :
          Complete(reply, fetchFeaturedApprovedListingsReturn(reply, now))

fetchApprovedListingById(id) ==
    /\ pc = "idle"
    /\ Send("fetchApprovedListingById", None, id, ByIdQuery(id))

fetchApprovedListingByIdResume ==
    /\ pc = "await"
    /\ op = "fetchApprovedListingById"
    /\ \E reply \in Replies(store, query), now \in Clock :
          Complete(reply, fetchApprovedListingByIdReturn(reply, now))

countApprovedListings ==
    /\ pc = "idle"
    /\ Send("countApprovedListings", None, 0, CountQuery)

countApprovedListingsResume ==
    /\ pc = "await"
    /\ op = "countApprovedListings"
    /\ \E reply \in Replies(store, query) \cup {NullCount} :
          Complete(reply, countApprovedListingsReturn(reply))

\* The caller has its result; the next call starts from scratch.
CallEnds ==
    /\ pc = "done"
    /\ pc' = "idle"
    /\ op' = "none"
    /\ filters' = None
    /\ reqId' = 0
    /\ query' = NoQuery
    /\ issued' = 0
    /\ response' = NoReply
    /\ result' = <<>>
    /\ raised' = FALSE
    /\ UNCHANGED <<store, other, frontend>>

\* No second call is running.
NoCall ==
    [pc |-> "idle", op |-> "none", filters |-> None, reqId |-> 0,
     query |-> NoQuery, response |-> NoReply, result |-> <<>>]

Quiet ==
    /\ pc = "idle"
    /\ op = "none"
    /\ filters = None
    /\ reqId = 0
    /\ query = NoQuery
    /\ issued = 0
    /\ response = NoReply
    /\ result = <<>>
    /\ raised = FALSE
    /\ other = NoCall

\* The application shell is not mounted.
\* AuthSection is not rendered, the cache is empty.
HeaderIdle ==
    /\ authSection = [user |-> None, profileImageUrl |-> None,
                      loadingProfileImage |-> FALSE, imageLoadAttempted |-> FALSE,
                      fetches |-> {}]
    /\ profileImageCache = <<>>
    /\ dateNow = 0

\* The UserProfile page is not open.
ProfileIdle ==
    /\ profileImages = {}
    /\ userProfile = [pc |-> "closed"]

\* Nobody is subscribing.
IndexIdle ==
    /\ emailSubscriptions = <<>>
    /\ submissions = <<>>

\* The Support page is not open.
SupportIdle == support = [mounted |-> FALSE]

PagesIdle == HeaderIdle /\ ProfileIdle /\ IndexIdle /\ SupportIdle

\* AppRoutes is not rendered.
ShellIdle ==
    /\ hostname = <<>>
    /\ auth = [loading |-> TRUE, user |-> None, isAdmin |-> FALSE, permissions |-> {}]
    /\ location = [pathname |-> <<>>, state |-> None]
    /\ screen = [kind |-> "none", name |-> "", to |-> <<>>, state |-> None,
                 header |-> FALSE]
    /\ adminRoute = [mounted |-> FALSE, verifying |-> TRUE, timer |-> FALSE]

Unmounted == PagesIdle /\ ShellIdle

----------------------------------------------------------------------------
(* Bounded inputs: tables and filter sets near a typical case *)

MaxRows == 3

MaxFilteredRows == 1

MaxDiff == 1

MaxActive == 1

MaxImages == 3

MaxTermLen == 2

MaxFeaturedRows == 4

Image(path, primary) == Some([storage_path |-> path, is_primary |-> primary])

\* A typical approved listing; its id stands for the row's opaque identifier.
BaseRow(i) ==
    [id |-> i,
     title |-> Some(<<"B">>),
     description |-> Some(<<"B">>),
     price |-> Some(100000),
     address |-> Some(<<"B">>),
     city |-> Some(<<"B">>),
     state |-> Some(<<"T", "X">>),
     latitude |-> Some(30),
     longitude |-> Some(97),
     num_sites |-> Some(50),
     occupancy_rate |-> Some(90),
     annual_revenue |-> Some(500000),
     cap_rate |-> Some(8),
     created_at |-> Some(i),
     status |-> StatusApproved,
     user_id |-> Some(<<"u">>),
     listing_images |-> Some(<<>>)]

\* Image collections: up to MaxImages entries with paths 1, 2, ... in order,
\* either well-formed with any of them flagged primary, or with one
\* malformed (null) entry among unflagged ones.
ImageLists ==
    UNION {
      {[i \in 1..n |-> Image(i, i \in prim)] : prim \in SUBSET (1..n)}
      \cup {[i \in 1..n |-> IF i = bad THEN None ELSE Image(i, FALSE)] :
               bad \in 1..n}
      : n \in 0..MaxImages}

\* The other values a column takes.
Alt(col) ==
    CASE col = "status" -> {"pending", "rejected"}
      [] col = "price" -> {None, Some(0), Some(9999999), Some(20000000)}
      [] col = "num_sites" -> {None, Some(999), Some(2000)}
      [] col = "cap_rate" -> {None, Some(5)}
      [] col = "occupancy_rate" -> {None, Some(60)}
      [] col = "state" -> {None, Some(<<"t", "x">>)}
      [] col = "title" -> {None, Some(<<"A", "b">>)}
      [] col = "description" -> {Some(<<"a">>), Some(<<"a", ",">>)}
      [] col = "city" -> {Some(<<"A", "a">>)}
      [] col = "address" -> {Some(<<"a">>)}
      [] col = "created_at" -> {None, Some(0), Some(9)}
      [] col = "listing_images" -> {None} \cup {Some(l) : l \in ImageLists \ {<<>>}}

BaseStore(n) == [i \in 1..n |-> BaseRow(i)]

Cells(n, cols) ==
    UNION {{<<i, c, v>> : v \in Alt(c)} : <<i, c>> \in (1..n) \X cols}

\* Tables of n rows that differ from the typical table in at most k cells of
\* the columns cols.
RECURSIVE Near(_, _, _)
Near(n, cols, k) ==
    IF k = 0 THEN {BaseStore(n)}
    ELSE LET less == Near(n, cols, k - 1) IN
         less \cup
         {[t EXCEPT ![d[1]] = [@ EXCEPT ![d[2]] = d[3]]] :
             <<t, d>> \in {<<t, d>> \in less \X Cells(n, cols) :
                              t[d[1]][d[2]] = BaseRow(d[1])[d[2]]}}

Tables(cols, rows) == UNION {Near(n, cols, MaxDiff) : n \in 0..rows}

\* filters = {}
NoFilters ==
    [priceMin |-> None, priceMax |-> None, state |-> None, sitesMin |-> None,
     sitesMax |-> None, capRateMin |-> None, occupancyRateMin |-> None,
     search |-> None]

\* Texts of at most n characters over an alphabet.
RECURSIVE Texts(_, _)
Texts(alphabet, n) ==
    IF n = 0 THEN {<<>>}
    ELSE LET shorter == Texts(alphabet, n - 1) IN
         shorter \cup {Append(t, c) : <<t, c>> \in shorter \X alphabet}

SearchAlphabet == {"a", "A", " ", "_", ","}

FieldValues(field, terms) ==
    CASE field = "priceMin" -> {Some(0), Some(100000)}
      [] field = "priceMax" -> {Some(0), Some(9999999), Some(10000000), Some(20000000)}
      [] field = "state" -> {Some(<<>>), Some(<<"T", "X">>), Some(<<"T">>)}
      [] field = "sitesMin" -> {Some(0), Some(50)}
      [] field = "sitesMax" -> {Some(0), Some(999), Some(1000)}
      [] field = "capRateMin" -> {Some(0), Some(8)}
      [] field = "occupancyRateMin" -> {Some(0), Some(90)}
      [] field = "search" -> {Some(t) : t \in terms}

Settings(fields, terms) ==
    UNION {{<<fl, v>> : v \in FieldValues(fl, terms)} : fl \in fields}

\* Filter objects with at most k of the fields set.
RECURSIVE FilterObjects(_, _, _)
FilterObjects(fields, terms, k) ==
    IF k = 0 THEN {NoFilters}
    ELSE LET less == FilterObjects(fields, terms, k - 1) IN
         less \cup
         {[f EXCEPT ![d[1]] = d[2]] :
             <<f, d>> \in {<<f, d>> \in less \X Settings(fields, terms) :
                              f[d[1]] = None}}

\* The optional argument of fetchApprovedListings: undefined or an object.
FilterArgs(fields, terms) ==
    {None} \cup {Some(f) : f \in FilterObjects(fields, terms, MaxActive)}

----------------------------------------------------------------------------
(* Filtering: fetchApprovedListings over tables that vary in the filtered    *)
(* columns, called with every filter object of at most MaxActive fields.     *)

FilteredColumns ==
    {"status", "price", "num_sites", "cap_rate", "occupancy_rate", "state"}

FilterFields ==
    {"priceMin", "priceMax", "state", "sitesMin", "sitesMax", "capRateMin",
     "occupancyRateMin", "search"}

\* A lower and an upper price bound together, the upper one below and at its
\* sentinel.
PriceRanges ==
    {Some([NoFilters EXCEPT !.priceMin = Some(100000), !.priceMax = Some(max)]) :
        max \in {9999999, PriceMaxSentinel}}

FilterCalls == FilterArgs(FilterFields, {<<"B">>, <<"t">>, <<",">>}) \cup PriceRanges

InitFilters == store \in Tables(FilteredColumns, MaxFilteredRows) /\ Quiet /\ Unmounted

NextFilters ==
    \/ \E fo \in FilterCalls : fetchApprovedListings(fo)
    \/ fetchApprovedListingsResume
    \/ CallEnds

SpecFilters == InitFilters /\ [][NextFilters]_vars

----------------------------------------------------------------------------
(* Searching: fetchApprovedListings over tables that vary in their texts,    *)
(* called with every search term of at most MaxTermLen characters.           *)

SearchedColumns == {"status", "title", "description", "city", "state", "address"}

SearchCalls == FilterArgs({"search", "state"}, Texts(SearchAlphabet, MaxTermLen))

InitSearch == store \in Tables(SearchedColumns, MaxFilteredRows) /\ Quiet /\ Unmounted

NextSearch ==
    \/ \E fo \in SearchCalls : fetchApprovedListings(fo)
    \/ fetchApprovedListingsResume
    \/ CallEnds

SpecSearch == InitSearch /\ [][NextSearch]_vars

----------------------------------------------------------------------------
(* Featuring: fetchFeaturedApprovedListings over tables of more rows than    *)
(* the limit, that vary in status and creation time, one row at most having  *)
(* a null entry among its images.                                            *)

FeaturedColumns == {"status", "created_at"}

InitFeatured ==
    /\ store \in UNION {{t} \cup {[t EXCEPT ![i].listing_images = Some(<<None>>)] :
                                     i \in 1..Len(t)} :
                          t \in Tables(FeaturedColumns, MaxFeaturedRows)}
    /\ Quiet /\ Unmounted

NextFeatured ==
    \/ fetchFeaturedApprovedListings
    \/ fetchFeaturedApprovedListingsResume
    \/ CallEnds

SpecFeatured == InitFeatured /\ [][NextFeatured]_vars

----------------------------------------------------------------------------
(* The four operations over tables that vary in status and images.           *)

PipelineColumns == {"status", "listing_images"}

PipelineCalls == {None, Some(NoFilters)}

\* Requested ids: those of the rows the table can hold, and one of no row.
RequestIds == 1..(MaxRows + 1)

Init == store \in Tables(PipelineColumns, MaxRows) /\ Quiet /\ Unmounted

Next ==
    \/ \E fo \in PipelineCalls : fetchApprovedListings(fo)
    \/ fetchApprovedListingsResume
    \/ fetchFeaturedApprovedListings
    \/ fetchFeaturedApprovedListingsResume
    \/ \E id \in RequestIds : fetchApprovedListingById(id)
    \/ fetchApprovedListingByIdResume
    \/ countApprovedListings
    \/ countApprovedListingsResume
    \/ CallEnds

Spec == Init /\ [][Next]_vars

----------------------------------------------------------------------------
(* Defaults: the three retrieval operations over tables whose rows hold      *)
(* falsy values (null, 0, the empty string) in the normalized columns.       *)

NumberColumns ==
    {"price", "latitude", "longitude", "num_sites", "occupancy_rate",
     "annual_revenue", "cap_rate"}

TextColumns == {"title", "description", "address", "city", "state"}

\* The falsy values of a column.
Falsy(col) ==
    IF col \in NumberColumns THEN {None, Some(0)}
    ELSE IF col \in TextColumns THEN {None, Some(<<>>)}
    ELSE {""}

FalsyCells(n) ==
    UNION {{<<i, c, v>> : v \in Falsy(c)} :
              <<i, c>> \in (1..n) \X (NumberColumns \cup TextColumns \cup {"status"})}

\* Tables of n rows with at most k cells made falsy.
RECURSIVE WithFalsy(_, _)
WithFalsy(n, k) ==
    IF k = 0 THEN {BaseStore(n)}
    ELSE LET less == WithFalsy(n, k - 1) IN
         less \cup
         {[t EXCEPT ![d[1]] = [@ EXCEPT ![d[2]] = d[3]]] :
             <<t, d>> \in {<<t, d>> \in less \X FalsyCells(n) :
                              t[d[1]][d[2]] = BaseRow(d[1])[d[2]]}}

InitDefaults ==
    /\ store \in UNION {WithFalsy(n, MaxDiff) : n \in 0..MaxFilteredRows}
    /\ Quiet
    /\ Unmounted

NextDefaults ==
    \/ \E fo \in PipelineCalls : fetchApprovedListings(fo)
    \/ fetchApprovedListingsResume
    \/ fetchFeaturedApprovedListings
    \/ fetchFeaturedApprovedListingsResume
    \/ \E id \in 1..(MaxFilteredRows + 1) : fetchApprovedListingById(id)
    \/ fetchApprovedListingByIdResume
    \/ CallEnds

SpecDefaults == InitDefaults /\ [][NextDefaults]_vars

----------------------------------------------------------------------------
(* Overlapping calls: a second call of any of the four operations runs       *)
(* while the first is in progress, and another client changes the table      *)
(* under them.                                                               *)

QueryOf(name, fo, id) ==
    CASE name = "fetchApprovedListings" -> ListQuery(fo)
      [] name = "fetchFeaturedApprovedListings" -> FeaturedQuery
      [] name = "fetchApprovedListingById" -> ByIdQuery(id)
      [] name = "countApprovedListings" -> CountQuery

ReturnOf(name, reply, now) ==
    CASE name = "fetchApprovedListings" -> fetchApprovedListingsReturn(reply, now)
      [] name = "fetchFeaturedApprovedListings" ->
            fetchFeaturedApprovedListingsReturn(reply, now)
      [] name = "fetchApprovedListingById" -> fetchApprovedListingByIdReturn(reply, now)
      [] name = "countApprovedListings" -> countApprovedListingsReturn(reply)

OtherCalls ==
    {<<"fetchApprovedListings", fo, 0>> : fo \in PipelineCalls}
    \cup {<<"fetchFeaturedApprovedListings", None, 0>>,
          <<"countApprovedListings", None, 0>>}
    \cup {<<"fetchApprovedListingById", None, id>> : id \in 1..(MaxFilteredRows + 1)}

OtherStarts(c) ==
    /\ other.pc = "idle"
    /\ other' = [pc |-> "await", op |-> c[1], filters |-> c[2], reqId |-> c[3],
                 query |-> QueryOf(c[1], c[2], c[3]), response |-> NoReply,
                 result |-> <<>>]
    /\ UNCHANGED <<store, pc, op, filters, reqId, query, issued, response, result,
                   raised, frontend>>

OtherResumes ==
    /\ other.pc = "await"
    /\ \E reply \in Replies(store, other.query)
                     \cup (IF other.op = "countApprovedListings"
                           THEN {NullCount} ELSE {}),
          now \in Clock :
          other' = [other EXCEPT !.pc = "done", !.response = reply,
                                 !.result = ReturnOf(other.op, reply, now).value]
    /\ UNCHANGED <<store, pc, op, filters, reqId, query, issued, response, result,
                   raised, frontend>>

OtherEnds ==
    /\ other.pc = "done"
    /\ other' = NoCall
    /\ UNCHANGED <<store, pc, op, filters, reqId, query, issued, response, result,
                   raised, frontend>>

\* Another client of the store approves a listing or takes its approval back.
StoreChanges ==
    /\ \E i \in 1..Len(store), s \in {StatusApproved, "pending"} :
          /\ store[i].status # s
          /\ store' = [store EXCEPT ![i].status = s]
    /\ UNCHANGED <<pc, op, filters, reqId, query, issued, response, result, raised,
                   other, frontend>>

InitConcurrent ==
    store \in Tables({"status"}, MaxFilteredRows) /\ Quiet /\ Unmounted

NextConcurrent ==
    \/ \E fo \in PipelineCalls : fetchApprovedListings(fo)
    \/ fetchApprovedListingsResume
    \/ fetchFeaturedApprovedListings
    \/ fetchFeaturedApprovedListingsResume
    \/ \E id \in 1..(MaxFilteredRows + 1) : fetchApprovedListingById(id)
    \/ fetchApprovedListingByIdResume
    \/ countApprovedListings
    \/ countApprovedListingsResume
    \/ CallEnds
    \/ \E c \in OtherCalls : OtherStarts(c)
    \/ OtherResumes
    \/ OtherEnds
    \/ StoreChanges

SpecConcurrent == InitConcurrent /\ [][NextConcurrent]_vars

----------------------------------------------------------------------------
(* The application shell.  A hostname is the sequence of its labels, a       *)
(* pathname the sequence of its segments ("/" is the empty sequence).        *)

listings ==
    <<store, pc, op, filters, reqId, query, issued, response, result, raised, other>>

AllowedDomains ==
    {<<"localhost">>, <<"127", "0", "0", "1">>, <<"park-sell-rover", "lovable", "app">>}

\* hostname === domain || hostname.endsWith(`.${domain}`)
isAllowedDomain(host) ==
    \E domain \in AllowedDomains :
        \/ host = domain
        \/ /\ Len(host) > Len(domain)
           /\ SubSeq(host, Len(host) - Len(domain) + 1, Len(host)) = domain

\* location.pathname.startsWith('/admin'): the first segment begins with
\* "admin".
isAdminRoute(pathname) ==
    pathname # <<>> /\ pathname[1] \in {"admin", "administrator"}

Screen(kind, name, to, state) ==
    [kind |-> kind, name |-> name, to |-> to, state |-> state, header |-> FALSE]

Page(name) == Screen("page", name, <<>>, None)

\* <Navigate to=... state=... replace />
Navigate(to, state) == Screen("navigate", "Navigate", to, state)

\* <Routes>, in the order of the source.
Routes ==
    <<[path |-> <<>>, element |-> "Index"],
      [path |-> <<"listings">>, element |-> "Listings"],
      [path |-> <<"listings", ":slug">>, element |-> "ListingDetail"],
      [path |-> <<"support">>, element |-> "Support"],
      [path |-> <<"profile">>, element |-> "UserProfile"],
      [path |-> <<"admin", "dashboard">>, element |-> "AdminDashboard"],
      [path |-> <<"admin", "support">>, element |-> "SupportTickets"],
      [path |-> <<"broker", "dashboard">>, element |-> "BrokerDashboard"],
      [path |-> <<"listings", "new">>, element |-> "AddListing"],
      [path |-> <<"listings", ":slug", "edit">>, element |-> "ListingEdit"],
      [path |-> <<"login">>, element |-> "Login"],
      [path |-> <<"register">>, element |-> "Register"],
      [path |-> <<"forgot-password">>, element |-> "ForgotPassword"],
      [path |-> <<"reset-password">>, element |-> "ResetPassword"],
      [path |-> <<"auth", "success">>, element |-> "AuthenticationSuccess"],
      [path |-> <<"auth", "callback">>, element |-> "AuthCallback"],
      [path |-> <<"verify-email">>, element |-> "EmailVerification"],
      [path |-> <<"*">>, element |-> "NotFound"]>>

\* A route pattern matches a pathname segment by segment, a parameter
\* matching any segment; "*" matches every pathname.
Matches(pattern, pathname) ==
    \/ pattern = <<"*">>
    \/ /\ Len(pattern) = Len(pathname)
       /\ \A i \in 1..Len(pattern) : pattern[i] = ":slug" \/ pattern[i] = pathname[i]

\* The router's ranking: a static segment outranks a parameter, "*" ranks
\* last.
RECURSIVE Score(_)
Score(pattern) ==
    IF pattern = <<"*">> THEN -1
    ELSE IF pattern = <<>> THEN 0
    ELSE (IF Head(pattern) = ":slug" THEN 4 ELSE 11) + Score(Tail(pattern))

\* The best-ranked matching route, the first of equals.
MatchedRoute(pathname) ==
    LET m == {i \in 1..Len(Routes) : Matches(Routes[i].path, pathname)} IN
    Routes[CHOOSE i \in m :
              \A j \in m : \/ Score(Routes[j].path) < Score(Routes[i].path)
                           \/ Score(Routes[j].path) = Score(Routes[i].path) /\ i <= j]

\* The page rendered whoever asks.
ProtectedUnguarded(name, a, loc) == Page(name)

\* user ? <Page /> : <Navigate to="/login" state={{ from: location }} replace />
Protected(name, a, loc) ==
    IF IsSome(a.user) THEN Page(name)
    ELSE Navigate(<<"login">>, Some([from |-> loc]))

\* The element of the matched route.
Element(name, a, loc) ==
    CASE name \in {"UserProfile", "BrokerDashboard", "AddListing", "ListingEdit"} ->
            Protected(name, a, loc)
      [] name \in {"AdminDashboard", "SupportTickets"} ->
            Screen("AdminRoute", name, <<>>, None)
      [] name = "Login" ->
            IF IsSome(a.user)
            THEN (IF a.isAdmin THEN Navigate(<<"admin", "dashboard">>, None)
                  ELSE Navigate(<<>>, None))
            ELSE Page(name)
      [] name \in {"Register", "ForgotPassword"} ->
            IF IsSome(a.user) THEN Navigate(<<>>, None) ELSE Page(name)
      [] OTHER -> Page(name)

\* What AppRoutes returns: AccessDenied, the loader, or the header (off the
\* admin routes) over the element of the matched route.
AppRoutes(host, a, loc) ==
    IF ~isAllowedDomain(host) THEN Screen("denied", "AccessDenied", <<>>, None)
    ELSE IF a.loading /\ ~isAdminRoute(loc.pathname)
         THEN Screen("loader", "Loader2", <<>>, None)
         ELSE [Element(MatchedRoute(loc.pathname).element, a, loc)
                  EXCEPT !.header = ~isAdminRoute(loc.pathname)]

Hosts ==
    AllowedDomains
    \cup {<<"preview", "park-sell-rover", "lovable", "app">>,
          <<"roverpass-park-sale", "vercel", "app">>, <<"lovable", "app">>}

Paths ==
    ({Routes[i].path : i \in 1..(Len(Routes) - 1)}
        \ {<<"listings", ":slug">>, <<"listings", ":slug", "edit">>})
    \cup {<<"listings", "park-1">>, <<"listings", "park-1", "edit">>,
          <<"listings", "new", "edit">>, <<"administrator">>, <<"nowhere">>,
          <<"profile", "edit">>}

\* What useAuth() can report.
AuthStates ==
    {[loading |-> l, user |-> u, isAdmin |-> ad, permissions |-> ps] :
        l \in BOOLEAN, u \in {None, Some("u1")}, ad \in BOOLEAN,
        ps \in {{}, {"admin.access"}}}

\* hasPermission(permission) of the authentication context.
hasPermission(a, permission) == permission \in a.permissions

\* AdminRoute before it is mounted: useState(true), no timer.
NoAdminRoute == [mounted |-> FALSE, verifying |-> TRUE, timer |-> FALSE]

\* AdminRoute that takes the user's word for it.
AdminRouteUnverified(name, a, loc, verifying) ==
    IF a.loading \/ verifying THEN Screen("loader", "Verifying admin access...", <<>>, None)
    ELSE IF ~IsSome(a.user) THEN Navigate(<<"login">>, Some([from |-> loc]))
    ELSE Page(name)

\* AdminRoute that sends the others to the admin pages.
AdminRouteBouncing(name, a, loc, verifying) ==
    IF a.loading \/ verifying THEN Screen("loader", "Verifying admin access...", <<>>, None)
    ELSE IF ~IsSome(a.user) THEN Navigate(<<"login">>, Some([from |-> loc]))
    ELSE IF ~a.isAdmin THEN Navigate(<<"admin", "support">>, None)
    ELSE Page(name)

\* What AdminRoute returns: the loader while loading or verifying, a
\* redirect without a user or for a user who is not an admin, else the
\* admin layout around its children.
AdminRoute(name, a, loc, verifying) ==
    IF a.loading \/ verifying THEN Screen("loader", "Verifying admin access...", <<>>, None)
    ELSE IF ~IsSome(a.user) THEN Navigate(<<"login">>, Some([from |-> loc]))
    ELSE IF ~a.isAdmin THEN Navigate(<<>>, None)
    ELSE Page(name)

\* The screen: what AppRoutes returns, with what the AdminRoute in it
\* returns.
Render(host, a, loc, ar) ==
    LET s == AppRoutes(host, a, loc) IN
    IF s.kind = "AdminRoute"
    THEN [AdminRoute(s.name, a, loc, ar.verifying) EXCEPT !.header = s.header]
    ELSE s

\* AdminRoute after AppRoutes rendered again: unmounted off the admin
\* routes; mounted with verifying = true; its effect starts
\* verifyAdminAccess when it mounts or loading changes, and loading is false.
Rerender(ar, wasLoading, host, a, loc) ==
    IF AppRoutes(host, a, loc).kind # "AdminRoute" THEN NoAdminRoute
    ELSE IF ~ar.mounted
         THEN [mounted |-> TRUE, verifying |-> TRUE, timer |-> ~a.loading]
         ELSE [ar EXCEPT !.timer = @ \/ (wasLoading /\ ~a.loading)]

\* The visitor opens a URL or follows a link.
Visit(pathname) ==
    /\ location' = [pathname |-> pathname, state |-> None]
    /\ adminRoute' = Rerender(adminRoute, auth.loading, hostname, auth, location')
    /\ screen' = Render(hostname, auth, location', adminRoute')
    /\ UNCHANGED <<hostname, auth, listings, pages>>

\* A rendered <Navigate> replaces the location; AppRoutes renders again.
FollowNavigate ==
    /\ screen.kind = "navigate"
    /\ location' = [pathname |-> screen.to, state |-> screen.state]
    /\ adminRoute' = Rerender(adminRoute, auth.loading, hostname, auth, location')
    /\ screen' = Render(hostname, auth, location', adminRoute')
    /\ UNCHANGED <<hostname, auth, listings, pages>>

\* The authentication context changes; AppRoutes renders again.
AuthChanges ==
    /\ \E a \in AuthStates :
          /\ a # auth
          /\ auth' = a
          /\ adminRoute' = Rerender(adminRoute, auth.loading, hostname, a, location)
          /\ screen' = Render(hostname, a, location, adminRoute')
    /\ UNCHANGED <<hostname, location, listings, pages>>

\* verifyAdminAccess resumes 300 ms after it started: it asks for the
\* 'admin.access' permission, drops the answer and ends the verification.
verifyAdminAccess ==
    /\ adminRoute.mounted /\ adminRoute.timer
    /\ LET hasAdminAccess == hasPermission(auth, "admin.access") IN
       adminRoute' = [adminRoute EXCEPT !.verifying = FALSE, !.timer = FALSE]
    /\ screen' = Render(hostname, auth, location, adminRoute')
    /\ UNCHANGED <<hostname, auth, location, listings, pages>>

InitRoutes ==
    /\ store = <<>>
    /\ Quiet
    /\ PagesIdle
    /\ hostname \in Hosts
    /\ auth = [loading |-> TRUE, user |-> None, isAdmin |-> FALSE, permissions |-> {}]
    /\ location \in {[pathname |-> p, state |-> None] : p \in Paths}
    /\ adminRoute = Rerender(NoAdminRoute, TRUE, hostname, auth, location)
    /\ screen = Render(hostname, auth, location, adminRoute)

NextRoutes ==
    \/ \E p \in Paths : Visit(p)
    \/ FollowNavigate
    \/ AuthChanges
    \/ verifyAdminAccess

SpecRoutes == InitRoutes /\ [][NextRoutes]_vars

\* Redirects under an authentication state that has settled: no user, a
\* signed-in user who is not an admin, or a signed-in admin.  A rendered
\* Navigate takes effect and the verification timer fires.
StableAuthStates ==
    {a \in AuthStates : ~a.loading /\ (a.isAdmin => IsSome(a.user))}

InitRedirects ==
    /\ store = <<>>
    /\ Quiet
    /\ PagesIdle
    /\ hostname \in Hosts
    /\ auth \in StableAuthStates
    /\ location \in {[pathname |-> p, state |-> None] : p \in Paths}
    /\ adminRoute = Rerender(NoAdminRoute, TRUE, hostname, auth, location)
    /\ screen = Render(hostname, auth, location, adminRoute)

NextRedirects ==
    \/ FollowNavigate
    \/ verifyAdminAccess

SpecRedirects ==
    /\ InitRedirects /\ [][NextRedirects]_vars
    /\ WF_vars(FollowNavigate) /\ WF_vars(verifyAdminAccess)

----------------------------------------------------------------------------
(* The header's AuthSection and its profile-image cache.  Time is counted in *)
(* minutes; the URL of a user's image is a pair, the empty URL '' is <<>>.    *)

MaxClock == 6

CACHE_DURATION == 5

UserIds == {"u1", "u2"}

\* supabase.storage.from('profile-images').getPublicUrl(storage_path)
PublicUrl(u) == <<"profile-images", u>>

\* Date.now() - timestamp < CACHE_DURATION
isCacheValid(timestamp, t) == t - timestamp < CACHE_DURATION

\* cached && isCacheValid(cached.timestamp), for cached = cache.get(u)
CachedValid(cache, u, t) ==
    IsSome(cache[u]) /\ isCacheValid(Val(cache[u]).timestamp, t)

\* url || null
OrNull(url) == IF url = <<>> THEN None ELSE Some(url)

\* useState initializers of AuthSection.
Mounted(user, cache, t) ==
    [user |-> user,
     profileImageUrl |->
        IF IsSome(user) /\ CachedValid(cache, Val(user), t)
        THEN OrNull(Val(cache[Val(user)]).url) ELSE None,
     loadingProfileImage |-> FALSE,
     imageLoadAttempted |-> FALSE,
     fetches |-> {}]

\* loadProfileImage that never fetches again once an entry exists.
loadProfileImageAnyAge(r, q, cache, t) ==
    IF ~IsSome(r.user) THEN q
    ELSE LET u == Val(r.user) IN
         IF IsSome(cache[u])
         THEN [q EXCEPT !.profileImageUrl = OrNull(Val(cache[u]).url),
                        !.imageLoadAttempted = TRUE]
         ELSE IF r.imageLoadAttempted \/ r.loadingProfileImage THEN q
         ELSE [q EXCEPT !.loadingProfileImage = TRUE,
                        !.imageLoadAttempted = TRUE,
                        !.fetches = @ \cup {u}]

\* The first effect, up to its await: loadProfileImage reads the values r of
\* the render it was created in and queues its updates on q.
loadProfileImage(r, q, cache, t) ==
    IF ~IsSome(r.user) THEN q
    ELSE LET u == Val(r.user) IN
         IF CachedValid(cache, u, t)
         THEN [q EXCEPT !.profileImageUrl =
                            IF r.profileImageUrl # Some(Val(cache[u]).url)
                            THEN OrNull(Val(cache[u]).url) ELSE @,
                        !.imageLoadAttempted = TRUE]
         ELSE IF r.imageLoadAttempted \/ r.loadingProfileImage THEN q
         ELSE [q EXCEPT !.loadingProfileImage = TRUE,
                        !.imageLoadAttempted = TRUE,
                        !.fetches = @ \cup {u}]

\* The second effect: reset the attempt flag when the user changes.
resetOnUserChange(r, q, cache, t) ==
    IF ~IsSome(r.user)
    THEN [q EXCEPT !.profileImageUrl = None, !.imageLoadAttempted = FALSE]
    ELSE LET u == Val(r.user) IN
         IF CachedValid(cache, u, t)
         THEN [q EXCEPT !.profileImageUrl = OrNull(Val(cache[u]).url),
                        !.imageLoadAttempted = TRUE]
         ELSE [q EXCEPT !.imageLoadAttempted = FALSE]

\* A render r after the render prev (or the first one) runs the effects
\* whose dependencies changed, in the order of the source; the updates they
\* queue give the next render, until a render changes nothing.
RECURSIVE Settle(_, _, _, _, _)
Settle(r, prev, first, cache, t) ==
    LET userChanged == first \/ r.user # prev.user
        attemptChanged == r.imageLoadAttempted # prev.imageLoadAttempted
        q1 == IF userChanged \/ attemptChanged
              THEN loadProfileImage(r, r, cache, t) ELSE r
        q2 == IF userChanged THEN resetOnUserChange(r, q1, cache, t) ELSE q1
    IN  IF q2 = r THEN r ELSE Settle(q2, r, FALSE, cache, t)

shell == <<hostname, auth, location, screen, adminRoute>>

beyondHeader == <<listings, shell, profileVars, indexVars, support>>

\* The user prop changes: sign-in, sign-out, or another user.
UserChanges(user) ==
    /\ user # authSection.user
    /\ authSection' = Settle([authSection EXCEPT !.user = user], authSection, FALSE,
                             profileImageCache, dateNow)
    /\ UNCHANGED <<profileImageCache, dateNow, beyondHeader>>

\* What the store can answer to the query of user u's active image: the
\* row, no row (PGRST116), or another error.
ImageAnswers == {"found", "none", "error"}

\* loadProfileImage resumes after its await: it caches the outcome under
\* the id of the user it was started for, sets the URL if there is one, and
\* clears the loading flag.
loadProfileImageResumes(u, outcome) ==
    /\ u \in authSection.fetches
    /\ profileImageCache' =
          [profileImageCache EXCEPT ![u] =
              Some([url |-> IF outcome = "found" THEN PublicUrl(u) ELSE <<>>,
                    timestamp |-> dateNow])]
    /\ authSection' =
          [authSection EXCEPT
              !.profileImageUrl = IF outcome = "found" THEN Some(PublicUrl(u)) ELSE @,
              !.loadingProfileImage = FALSE,
              !.fetches = @ \ {u}]
    /\ UNCHANGED <<dateNow, beyondHeader>>

\* A minute passes.
Tick ==
    /\ dateNow < MaxClock
    /\ dateNow' = dateNow + 1
    /\ UNCHANGED <<authSection, profileImageCache, beyondHeader>>

InitHeader ==
    /\ store = <<>>
    /\ Quiet
    /\ ShellIdle /\ ProfileIdle /\ IndexIdle /\ SupportIdle
    /\ dateNow = 0
    /\ profileImageCache = [u \in UserIds |-> None]
    /\ \E user \in {None} \cup {Some(u) : u \in UserIds} :
          authSection = Settle(Mounted(user, profileImageCache, dateNow),
                               Mounted(user, profileImageCache, dateNow), TRUE,
                               profileImageCache, dateNow)

NextHeader ==
    \/ \E user \in {None} \cup {Some(u) : u \in UserIds} : UserChanges(user)
    \/ \E u \in UserIds, outcome \in ImageAnswers : loadProfileImageResumes(u, outcome)
    \/ Tick

SpecHeader == InitHeader /\ [][NextHeader]_vars

----------------------------------------------------------------------------
(* The UserProfile page and the profile_images table.  The page belongs to   *)
(* user u1; the table also holds a row of u2.                                *)

MaxUploads == 2

beyondProfile == <<listings, shell, headerVars, indexVars, support>>

\* from('profile_images') ... eq('user_id', u).eq('is_active', true)
ActiveImages(rows, u) == {r \in rows : r.user_id = u /\ r.is_active}

\* The page as it mounts: no image in its state, loadProfileImage started.
ProfileOpened(nextId) ==
    [pc |-> "open", profileImage |-> None, loading |-> TRUE,
     uploading |-> "idle", deleting |-> None, nextId |-> nextId]

Answers == {"ok", "error"}

\* loadProfileImage resumes: single() gives the one active row; no row or
\* several rows are PGRST116 and leave data null; another error is logged.
profileLoadResumes(answer) ==
    /\ userProfile.pc = "open" /\ userProfile.loading
    /\ LET active == ActiveImages(profileImages, "u1") IN
       userProfile' =
          [userProfile EXCEPT
              !.loading = FALSE,
              !.profileImage =
                  IF answer = "error" THEN @
                  ELSE IF Cardinality(active) = 1
                       THEN Some((CHOOSE r \in active : TRUE).id)
                       ELSE None]
    /\ UNCHANGED <<profileImages, beyondProfile>>

\* uploadProfileImage up to its first await: the deactivation is requested
\* only if the page holds a profile image.
uploadProfileImage ==
    /\ userProfile.pc = "open" /\ userProfile.uploading = "idle"
    /\ userProfile.nextId <= 2 + MaxUploads
    /\ userProfile' =
          [userProfile EXCEPT
              !.uploading = IF IsSome(userProfile.profileImage)
                            THEN "deactivate" ELSE "upload"]
    /\ UNCHANGED <<profileImages, beyondProfile>>

\* The store answers the deactivation; its error is not looked at.
uploadDeactivates(answer) ==
    /\ userProfile.pc = "open" /\ userProfile.uploading = "deactivate"
    /\ profileImages' =
          IF answer = "error" THEN profileImages
          ELSE {IF r \in ActiveImages(profileImages, "u1")
                THEN [r EXCEPT !.is_active = FALSE] ELSE r : r \in profileImages}
    /\ userProfile' = [userProfile EXCEPT !.uploading = "upload"]
    /\ UNCHANGED beyondProfile

\* The storage answers the upload of the file.
uploadStores(answer) ==
    /\ userProfile.pc = "open" /\ userProfile.uploading = "upload"
    /\ userProfile' =
          [userProfile EXCEPT !.uploading = IF answer = "error" THEN "idle" ELSE "insert"]
    /\ UNCHANGED <<profileImages, beyondProfile>>

\* The store answers the insert of the new row, active.
uploadInserts(answer) ==
    /\ userProfile.pc = "open" /\ userProfile.uploading = "insert"
    /\ IF answer = "error"
       THEN /\ userProfile' = [userProfile EXCEPT !.uploading = "idle"]
            /\ UNCHANGED profileImages
       ELSE /\ profileImages' = profileImages \cup
                  {[id |-> userProfile.nextId, user_id |-> "u1", is_active |-> TRUE]}
            /\ userProfile' =
                  [userProfile EXCEPT !.uploading = "idle",
                                      !.profileImage = Some(userProfile.nextId),
                                      !.nextId = @ + 1]
    /\ UNCHANGED beyondProfile

\* deleteProfileImage up to its awaits.
deleteProfileImage ==
    /\ userProfile.pc = "open" /\ userProfile.uploading = "idle"
    /\ userProfile.deleting = None
    /\ IsSome(userProfile.profileImage)
    /\ userProfile' = [userProfile EXCEPT !.deleting = userProfile.profileImage]
    /\ UNCHANGED <<profileImages, beyondProfile>>

\* The store answers the delete of the row by its id.
deleteResumes(answer) ==
    /\ userProfile.pc = "open" /\ IsSome(userProfile.deleting)
    /\ IF answer = "error"
       THEN /\ userProfile' = [userProfile EXCEPT !.deleting = None]
            /\ UNCHANGED profileImages
       ELSE /\ profileImages' = {r \in profileImages : r.id # Val(userProfile.deleting)}
            /\ userProfile' = [userProfile EXCEPT !.deleting = None, !.profileImage = None]
    /\ UNCHANGED beyondProfile

\* The user leaves the page and opens it again.
profileReopens ==
    /\ userProfile.pc = "open" /\ ~userProfile.loading
    /\ userProfile.uploading = "idle" /\ userProfile.deleting = None
    /\ userProfile' = ProfileOpened(userProfile.nextId)
    /\ UNCHANGED <<profileImages, beyondProfile>>

InitProfile ==
    /\ store = <<>>
    /\ Quiet
    /\ ShellIdle /\ HeaderIdle /\ IndexIdle /\ SupportIdle
    /\ profileImages \in SUBSET {[id |-> 1, user_id |-> "u1", is_active |-> TRUE],
                                  [id |-> 2, user_id |-> "u2", is_active |-> TRUE]}
    /\ userProfile = ProfileOpened(3)

NextProfile ==
    \/ \E answer \in Answers : profileLoadResumes(answer)
    \/ uploadProfileImage
    \/ \E answer \in Answers : uploadDeactivates(answer)
    \/ \E answer \in Answers : uploadStores(answer)
    \/ \E answer \in Answers : uploadInserts(answer)
    \/ deleteProfileImage
    \/ \E answer \in Answers : deleteResumes(answer)
    \/ profileReopens

SpecProfile == InitProfile /\ [][NextProfile]_vars

----------------------------------------------------------------------------
(* The newsletter form of the Index page and the email_subscriptions table:  *)
(* two visitors submit, the store answers their requests one at a time.      *)

MaxSubscriptions == 3

Visitors == {1, 2}

beyondIndex == <<listings, shell, headerVars, profileVars, support>>

Address(c) == <<c, "@", "x", ".", "i", "o">>

\* What a visitor types.
TypedEmails == {<<>>, <<"a">>, Address("A"), Address("a"), Address("b")}

\* The shape the regular expression of isValidEmail accepts: something, an
\* "@", and a domain that ends in a dot and two characters or more.
isValidEmail(email) ==
    \E at \in 2..Len(email) :
        /\ email[at] = "@"
        /\ \A i \in 1..Len(email) : i # at => email[i] # "@"
        /\ \E dot \in (at + 2)..(Len(email) - 2) : email[dot] = "."

NoSubmission == [pc |-> "idle", email |-> <<>>, formError |-> FALSE]

\* from('email_subscriptions') ... eq('email', email)
Subscribed(rows, email) == {i \in 1..Len(rows) : rows[i].email = email}

\* handleSubscribe up to its first await: the email and the captcha are
\* validated, the email is sent in lower case.
handleSubscribe(v, email, captchaToken) ==
    /\ submissions[v].pc = "idle"
    /\ submissions' =
          [submissions EXCEPT ![v] =
              IF email = <<>> \/ ~isValidEmail(LowerText(email)) \/ ~captchaToken
              THEN [NoSubmission EXCEPT !.formError = TRUE]
              ELSE [pc |-> "check", email |-> LowerText(email), formError |-> FALSE]]
    /\ UNCHANGED <<emailSubscriptions, beyondIndex>>

\* The store answers the check: single() gives the row if there is exactly
\* one; none or several are PGRST116 and leave existingEmails null; another
\* error ends the submission.
subscribeChecks(v, answer) ==
    /\ submissions[v].pc = "check"
    /\ submissions' =
          [submissions EXCEPT ![v] =
              IF answer = "error" THEN [NoSubmission EXCEPT !.formError = TRUE]
              ELSE IF Cardinality(Subscribed(emailSubscriptions, @.email)) = 1
                   THEN [@ EXCEPT !.pc = "update"]
                   ELSE [@ EXCEPT !.pc = "insert"]]
    /\ UNCHANGED <<emailSubscriptions, beyondIndex>>

\* The store answers the update of an existing email: is_active = true.
subscribeUpdates(v, answer) ==
    /\ submissions[v].pc = "update"
    /\ emailSubscriptions' =
          IF answer = "error" THEN emailSubscriptions
          ELSE [i \in 1..Len(emailSubscriptions) |->
                   IF emailSubscriptions[i].email = submissions[v].email
                   THEN [emailSubscriptions[i] EXCEPT !.is_active = TRUE]
                   ELSE emailSubscriptions[i]]
    /\ submissions' =
          [submissions EXCEPT ![v] = [NoSubmission EXCEPT !.formError = (answer = "error")]]
    /\ UNCHANGED beyondIndex

\* The store answers the insert of a new subscription.
subscribeInserts(v, answer) ==
    /\ submissions[v].pc = "insert"
    /\ answer = "ok" => Len(emailSubscriptions) < MaxSubscriptions
    /\ emailSubscriptions' =
          IF answer = "error" THEN emailSubscriptions
          ELSE Append(emailSubscriptions,
                      [email |-> submissions[v].email, is_active |-> TRUE])
    /\ submissions' =
          [submissions EXCEPT ![v] = [NoSubmission EXCEPT !.formError = (answer = "error")]]
    /\ UNCHANGED beyondIndex

InitIndex ==
    /\ store = <<>>
    /\ Quiet
    /\ ShellIdle /\ HeaderIdle /\ ProfileIdle /\ SupportIdle
    /\ emailSubscriptions \in
          {<<>>} \cup {<<[email |-> Address("a"), is_active |-> b]>> : b \in BOOLEAN}
    /\ submissions = [v \in Visitors |-> NoSubmission]

NextIndex ==
    \/ \E v \in Visitors, email \in TypedEmails, captchaToken \in BOOLEAN :
          handleSubscribe(v, email, captchaToken)
    \/ \E v \in Visitors, answer \in Answers : subscribeChecks(v, answer)
    \/ \E v \in Visitors, answer \in Answers : subscribeUpdates(v, answer)
    \/ \E v \in Visitors, answer \in Answers : subscribeInserts(v, answer)

SpecIndex == InitIndex /\ [][NextIndex]_vars

----------------------------------------------------------------------------
(* The Support page: the effect that loads the embedded form script.  Each   *)
(* run of the effect adds a script element and a 10-second timer; the        *)
(* cleanup loadHubspotForm returns is not returned by the effect, so nothing *)
(* is ever cleaned up.                                                       *)

MaxEffectRuns == 3

beyondSupport == <<listings, shell, headerVars, profileVars, indexVars>>

\* loadHubspotForm: a script element, loading, and its timer.
loadHubspotForm(sup) ==
    [sup EXCEPT !.scripts = Append(@, [state |-> "loading", timer |-> "pending"])]

\* clearTimeout(scriptTimeout)
clearTimeout(timer) == IF timer = "pending" THEN "cleared" ELSE timer

\* The user or the toast changes: the effect runs again.
supportEffectRuns ==
    /\ support.mounted
    /\ Len(support.scripts) < MaxEffectRuns
    /\ support' = loadHubspotForm(support)
    /\ UNCHANGED beyondSupport

\* script.onload: the timer is cleared; if window.hbspt is there the form
\* is created (formLoaded) or its creation throws (formLoadError).
onload(sup, i, provides, creates) ==
    LET hbspt == sup.hbspt \/ provides IN
    [sup EXCEPT !.hbspt = hbspt,
                !.scripts[i] = [state |-> "loaded", timer |-> clearTimeout(@.timer)],
                !.formLoaded = @ \/ (hbspt /\ creates),
                !.formLoadError = @ \/ (hbspt /\ ~creates)]

\* The script is loaded: it may or may not have defined window.hbspt, and
\* hbspt.forms.create may throw.
scriptLoads(i, provides, creates) ==
    /\ support.mounted
    /\ i \in 1..Len(support.scripts)
    /\ support.scripts[i].state = "loading"
    /\ support' = onload(support, i, provides, creates)
    /\ UNCHANGED beyondSupport

\* script.onerror: the timer is cleared, formLoadError is set.
scriptFails(i) ==
    /\ support.mounted
    /\ i \in 1..Len(support.scripts)
    /\ support.scripts[i].state = "loading"
    /\ support' =
          [support EXCEPT !.scripts[i] = [state |-> "failed", timer |-> clearTimeout(@.timer)],
                          !.formLoadError = TRUE]
    /\ UNCHANGED beyondSupport

\* The 10 seconds are over: formLoadError unless window.hbspt is there.
scriptTimeout(i) ==
    /\ support.mounted
    /\ i \in 1..Len(support.scripts)
    /\ support.scripts[i].timer = "pending"
    /\ support' =
          [support EXCEPT !.scripts[i].timer = "fired",
                          !.formLoadError = @ \/ ~support.hbspt]
    /\ UNCHANGED beyondSupport

\* The page mounts; window.hbspt may be left from an earlier visit.
InitSupport ==
    /\ store = <<>>
    /\ Quiet
    /\ ShellIdle /\ HeaderIdle /\ ProfileIdle /\ IndexIdle
    /\ \E hbspt \in BOOLEAN :
          support = loadHubspotForm([mounted |-> TRUE, formLoaded |-> FALSE,
                                     formLoadError |-> FALSE, hbspt |-> hbspt,
                                     scripts |-> <<>>])

NextSupport ==
    \/ supportEffectRuns
    \/ \E i \in 1..MaxEffectRuns, provides \in BOOLEAN, creates \in BOOLEAN :
          scriptLoads(i, provides, creates)
    \/ \E i \in 1..MaxEffectRuns : scriptFails(i)
    \/ \E i \in 1..MaxEffectRuns : scriptTimeout(i)

\* Timers fire, and the browser ends the loading of a script with one of
\* its two events.
SpecSupport ==
    /\ InitSupport /\ [][NextSupport]_vars
    /\ \A i \in 1..MaxEffectRuns :
          /\ WF_vars(scriptTimeout(i))
          /\ WF_vars(scriptFails(i)
                      \/ \E provides \in BOOLEAN, creates \in BOOLEAN :
                            scriptLoads(i, provides, creates))

----------------------------------------------------------------------------
(* Properties *)

ListDone == pc = "done" /\ op = "fetchApprovedListings"

\* The store executed the query: the reply is its answer to it.
Answered == response.cause \notin {"fault", "network"}

\* The row of the table a returned record was made from.
RowOf(l) == CHOOSE r \in {store[j] : j \in 1..Len(store)} : r.id = l.id

FromTable(l) == \E j \in 1..Len(store) : store[j].id = l.id

\* What fetchApprovedListings(fo) returns when the store answers its query.
ListResult(fo, now) ==
    fetchApprovedListingsReturn(Execute(store, ListQuery(fo)), now).value

Without(f, field) == Some([f EXCEPT ![field] = None])

SearchApplied(f) == IsSome(f.search) /\ Trim(Val(f.search)) # <<>>

HasTerm(kind, col) ==
    \E i \in 1..Len(query.terms) : query.terms[i].kind = kind /\ query.terms[i].col = col

\* C1: every record fetchApprovedListings returns, whatever the filters and
\* the search string, has status "approved" and is made from a row of the
\* table whose status is "approved"; the query always carries the constraint
\* status = approved.
C1_OnlyApprovedReturned ==
    /\ op = "fetchApprovedListings" =>
          \E i \in 1..Len(query.terms) :
              query.terms[i] = Term("eq", "status", StatusApproved)
    /\ ListDone =>
          \A i \in 1..Len(result) :
              /\ result[i].status = StatusApproved
              /\ FromTable(result[i])
              /\ RowOf(result[i]).status = StatusApproved

\* A search that matches the texts of a pending row was answered by the
\* store and did not return it.
C1_Witness ==
    /\ ListDone /\ Answered
    /\ IsSome(filters)
    /\ SearchApplied(Val(filters))
    /\ Len(store) = 1 /\ store[1].status = "pending"
    /\ ILike(Val(store[1].title), SearchPattern(Val(Val(filters).search)))
    /\ result = <<>>

LowerBounds ==
    {<<"priceMin", "price">>, <<"sitesMin", "num_sites">>,
     <<"capRateMin", "cap_rate">>, <<"occupancyRateMin", "occupancy_rate">>}

\* The column holds a value and it is >= v.
AtLeast(l, col, v) ==
    IsSome(NumCol(RowOf(l), col)) /\ Val(NumCol(RowOf(l), col)) >= v

\* The column holds a value and it is <= v.
AtMost(l, col, v) ==
    IsSome(NumCol(RowOf(l), col)) /\ Val(NumCol(RowOf(l), col)) <= v

\* C5: for each lower-bound filter (priceMin on price, sitesMin on num_sites,
\* capRateMin on cap_rate, occupancyRateMin on occupancy_rate): when its
\* value is defined and > 0 the call returns exactly the records of the same
\* call without that field whose column is >= the value (a row equal to the
\* bound is kept), and otherwise exactly the records of the call without it.
C5_LowerBoundsInclusive ==
    (ListDone /\ Answered /\ IsSome(filters)) =>
        \A b \in LowerBounds :
            LET f == Val(filters)
                v == f[b[1]]
                Kept(l) == AtLeast(l, b[2], Val(v))
            IN  \E now \in Clock :
                    result = IF IsSome(v) /\ Val(v) > 0
                             THEN SelectSeq(ListResult(Without(f, b[1]), now), Kept)
                             ELSE ListResult(Without(f, b[1]), now)

\* priceMin = 100000 kept the row priced exactly 100000.
C5_Witness ==
    /\ ListDone /\ Answered /\ IsSome(filters)
    /\ Val(filters).priceMin = Some(100000)
    /\ Len(store) = 1
    /\ store[1].price = Some(100000)
    /\ Len(result) = 1 /\ result[1].id = 1 /\ result[1].price = 100000

UpperBounds ==
    {<<"priceMax", "price", PriceMaxSentinel>>,
     <<"sitesMax", "num_sites", SitesMaxSentinel>>}

\* C6: priceMax (sentinel 10,000,000, on price) and sitesMax (sentinel 1000,
\* on num_sites): the query carries the upper bound iff the value is defined
\* and below the sentinel; then the call returns exactly the records of the
\* same call without that field whose column is <= the value, and otherwise
\* exactly the records of the call without it.  With priceMin = 100000 and
\* priceMax = 9999999 the query carries both bounds; with priceMax = 10000000
\* it carries the lower bound only.
C6_UpperBoundsBelowSentinel ==
    /\ (op = "fetchApprovedListings" /\ IsSome(filters)) =>
          LET f == Val(filters) IN
          /\ \A b \in UpperBounds :
                HasTerm("lte", b[2]) <=> (IsSome(f[b[1]]) /\ Val(f[b[1]]) < b[3])
          /\ (f.priceMin = Some(100000) /\ f.priceMax = Some(9999999)) =>
                /\ \E i \in 1..Len(query.terms) :
                       query.terms[i] = Term("gte", "price", 100000)
                /\ \E i \in 1..Len(query.terms) :
                       query.terms[i] = Term("lte", "price", 9999999)
          /\ (f.priceMin = Some(100000) /\ f.priceMax = Some(10000000)) =>
                HasTerm("gte", "price") /\ ~HasTerm("lte", "price")
    /\ (ListDone /\ Answered /\ IsSome(filters)) =>
          \A b \in UpperBounds :
              LET f == Val(filters)
                  v == f[b[1]]
                  Kept(l) == AtMost(l, b[2], Val(v))
              IN  \E now \in Clock :
                      result = IF IsSome(v) /\ Val(v) < b[3]
                               THEN SelectSeq(ListResult(Without(f, b[1]), now), Kept)
                               ELSE ListResult(Without(f, b[1]), now)

\* With priceMin = 100000 and priceMax = 10000000 the row priced 20,000,000
\* is returned.
C6_Witness ==
    /\ ListDone /\ Answered /\ IsSome(filters)
    /\ Val(filters).priceMin = Some(100000)
    /\ Val(filters).priceMax = Some(10000000)
    /\ Len(store) = 1
    /\ store[1].price = Some(20000000)
    /\ Len(result) = 1 /\ result[1].price = 20000000

NumericFields ==
    {"priceMin", "priceMax", "sitesMin", "sitesMax", "capRateMin", "occupancyRateMin"}

Sentinel(field) ==
    CASE field = "priceMax" -> PriceMaxSentinel
      [] field = "sitesMax" -> SitesMaxSentinel
      [] OTHER -> 0

SameAsWithout(field) ==
    \E now \in Clock : result = ListResult(Without(Val(filters), field), now)

\* C7 as stated: for each numeric filter field a value that is absent, zero
\* or at its sentinel is skipped: the call returns what the same call without
\* that field returns.
C7_AbsentZeroSentinelSkipped ==
    (ListDone /\ Answered /\ IsSome(filters)) =>
        \A field \in NumericFields :
            LET v == Val(filters)[field] IN
            (v = None \/ v = Some(0) \/ v = Some(Sentinel(field)))
                => SameAsWithout(field)

\* C7, amended: a numeric filter field is skipped when it is absent, when it
\* is a lower bound (priceMin, sitesMin, capRateMin, occupancyRateMin) equal
\* to zero, or when it is an upper bound at its sentinel (priceMax =
\* 10,000,000, sitesMax = 1000): the call returns what the same call without
\* that field returns.
C7_SkipValuesIgnored ==
    (ListDone /\ Answered /\ IsSome(filters)) =>
        \A field \in NumericFields :
            LET v == Val(filters)[field] IN
            (v = None \/ v = Some(Sentinel(field))) => SameAsWithout(field)

\* sitesMax = 1000 did not remove the row of 2000 sites.
C7_Witness ==
    /\ ListDone /\ Answered /\ IsSome(filters)
    /\ Val(filters).sitesMax = Some(1000)
    /\ Len(store) = 1
    /\ store[1].num_sites = Some(2000)
    /\ Len(result) = 1 /\ result[1].numSites = 2000

\* C8: the state filter constrains the result iff it is a non-empty string:
\* then the call returns exactly the records of the same call without it
\* whose state equals the value character for character, and otherwise
\* (absent or empty) exactly the records of the call without it.
C8_StateExactMatch ==
    (ListDone /\ Answered /\ IsSome(filters)) =>
        LET f == Val(filters)
            v == f.state
            Kept(l) == l.location.state = Val(v)
        IN  \E now \in Clock :
                result = IF IsSome(v) /\ Val(v) # <<>>
                         THEN SelectSeq(ListResult(Without(f, "state"), now), Kept)
                         ELSE ListResult(Without(f, "state"), now)

\* state = "TX" did not return the approved row of state "tx".
C8_Witness ==
    /\ ListDone /\ Answered /\ IsSome(filters)
    /\ Val(filters).state = Some(<<"T", "X">>)
    /\ Len(store) = 1
    /\ store[1].state = Some(<<"t", "x">>) /\ store[1].status = StatusApproved
    /\ result = <<>>

\* sub occurs in text, letters compared without case.
Contains(text, sub) ==
    \E i \in 0..(Len(text) - Len(sub)) :
        LowerText(SubSeq(text, i + 1, i + Len(sub))) = LowerText(sub)

\* C9: when search is non-empty after trimming, every returned row has the
\* trimmed term, without regard to case, as a substring of its title,
\* description, city or state; a search that is absent, empty or blank adds
\* no constraint.
C9_SearchIsSubstringMatch ==
    (ListDone /\ Answered /\ IsSome(filters)) =>
        LET f == Val(filters) IN
        IF SearchApplied(f)
        THEN \A i \in 1..Len(result) :
                 \E c \in {"title", "description", "city", "state"} :
                     /\ IsSome(TextCol(RowOf(result[i]), c))
                     /\ Contains(Val(TextCol(RowOf(result[i]), c)), Trim(Val(f.search)))
        ELSE SameAsWithout("search")

\* The row satisfies every applied filter field and, when search is applied,
\* one of the four alternatives column ILIKE %term%.
Wanted(row, fo) ==
    /\ row.status = StatusApproved
    /\ IsSome(fo) =>
          LET f == Val(fo) IN
          /\ \A b \in LowerBounds :
                (IsSome(f[b[1]]) /\ Val(f[b[1]]) > 0) =>
                    (IsSome(NumCol(row, b[2])) /\ Val(NumCol(row, b[2])) >= Val(f[b[1]]))
          /\ \A b \in UpperBounds :
                (IsSome(f[b[1]]) /\ Val(f[b[1]]) < b[3]) =>
                    (IsSome(NumCol(row, b[2])) /\ Val(NumCol(row, b[2])) <= Val(f[b[1]]))
          /\ (IsSome(f.state) /\ Val(f.state) # <<>>) => row.state = f.state
          /\ SearchApplied(f) =>
                \E c \in {"title", "description", "city", "state"} :
                    /\ IsSome(TextCol(row, c))
                    /\ ILike(Val(TextCol(row, c)), <<"%">> \o Trim(Val(f.search)) \o <<"%">>)

Ids(s) == [i \in 1..Len(s) |-> s[i].id]

\* C4: when the store answers and every row normalizes, the records returned
\* by fetchApprovedListings are exactly the approved rows that satisfy every
\* applied filter field and, when search is applied, one of the search
\* alternatives.
C4_ExactlyTheMatchingRows ==
    (ListDone /\ Answered
        /\ \A j \in 1..Len(store) : ~ImagesThrow(store[j].listing_images)) =>
        LET IsWanted(row) == Wanted(row, filters)
        IN  Ids(result) = Ids(SelectSeq(store, IsWanted))

\* Every failure is absorbed: the soft result of the operation.
SoftResult ==
    CASE op = "fetchApprovedListings" -> result = <<>>
      [] op = "fetchFeaturedApprovedListings" -> result = <<>>
      [] op = "fetchApprovedListingById" -> result = None
      [] op = "countApprovedListings" -> result = 0

\* C2: no operation raises to its caller; when the store returns an error or
\* the request throws, fetchApprovedListings and fetchFeaturedApprovedListings
\* return the empty list, fetchApprovedListingById returns null and
\* countApprovedListings returns 0.
C2_FailuresAbsorbed ==
    /\ ~raised
    /\ (pc = "done" /\ response.kind \in {"error", "throw"}) => SoftResult

\* The request of countApprovedListings was rejected over a table that holds
\* approved rows, and the call returned 0.
C2_Witness ==
    /\ pc = "done" /\ op = "countApprovedListings"
    /\ response.kind = "throw"
    /\ \E j \in 1..Len(store) : store[j].status = StatusApproved
    /\ result = 0 /\ ~raised

\* A row with a malformed image entry: its normalization fails.
Malformed(row) ==
    /\ IsSome(row.listing_images)
    /\ \E i \in 1..Len(Val(row.listing_images)) : Val(row.listing_images)[i] = None

WellFormed(row) == ~Malformed(row)

\* C3: in fetchApprovedListings and fetchFeaturedApprovedListings a row whose
\* normalization fails is the only one omitted: the result holds the
\* normalized record of every other row of the batch, in the batch's order,
\* and nothing is raised.
C3_OnlyFailingRowDropped ==
    (pc = "done" /\ response.kind = "data"
        /\ op \in {"fetchApprovedListings", "fetchFeaturedApprovedListings"}) =>
        LET good == SelectSeq(response.rows, WellFormed) IN
        /\ ~raised
        /\ Len(result) = Len(good)
        /\ \A i \in 1..Len(good) :
              /\ result[i].id = good[i].id
              /\ result[i].featured = (op = "fetchFeaturedApprovedListings")
              /\ Len(result[i].images) =
                    IF IsSome(good[i].listing_images)
                    THEN Len(Val(good[i].listing_images)) ELSE 0

\* Of a batch of three rows the second failed and the first and the third
\* were returned, in that order.
C3_Witness ==
    /\ ListDone /\ response.kind = "data"
    /\ Len(response.rows) = 3
    /\ Malformed(response.rows[2])
    /\ Ids(result) = <<response.rows[1].id, response.rows[3].id>>

Primaries(entries) == {i \in 1..Len(entries) : Val(entries[i]).is_primary}

\* The resolved URLs with the one of position p first and the others in
\* their order.
Promoted(entries, p) ==
    [i \in 1..Len(entries) |->
        getPublicUrl(Val(entries[IF i = 1 THEN p ELSE IF i <= p THEN i - 1 ELSE i])
                        .storage_path)]

ImagesAsClaimed(l) ==
    LET row == RowOf(l)
        entries == Val(row.listing_images)
    IN  (WellFormed(row) /\ IsSome(row.listing_images)
            /\ Cardinality(Primaries(entries)) = 1) =>
            l.images = Promoted(entries, CHOOSE p \in Primaries(entries) : TRUE)

\* C10: in the three retrieval operations, a record made from a row with
\* exactly one image flagged primary has that image's URL first and the other
\* URLs after it in their original order; when the primary image is the
\* first one, the images are the resolved URLs in input order.
C10_PrimaryImageFirst ==
    (pc = "done" /\ response.kind = "data") =>
        CASE op \in {"fetchApprovedListings", "fetchFeaturedApprovedListings"} ->
                \A i \in 1..Len(result) : ImagesAsClaimed(result[i])
          [] op = "fetchApprovedListingById" ->
                IsSome(result) => ImagesAsClaimed(Val(result))
          [] OTHER -> TRUE

\* fetchApprovedListingById returned a record of three images whose only
\* primary image, the third, comes first, followed by the first and second.
C10_Witness ==
    /\ pc = "done" /\ op = "fetchApprovedListingById" /\ IsSome(result)
    /\ WellFormed(RowOf(Val(result)))
    /\ IsSome(RowOf(Val(result)).listing_images)
    /\ LET entries == Val(RowOf(Val(result)).listing_images) IN
       /\ Len(entries) = 3
       /\ Primaries(entries) = {3}
       /\ Val(result).images =
             <<getPublicUrl(3), getPublicUrl(1), getPublicUrl(2)>>

Done == pc = "done" /\ response.kind = "data"

ListOps == {"fetchApprovedListings", "fetchFeaturedApprovedListings"}

\* The records a finished call handed to its caller.
Records ==
    IF pc # "done" THEN <<>>
    ELSE IF op \in ListOps THEN result
    ELSE IF op = "fetchApprovedListingById" /\ IsSome(result) THEN <<Val(result)>>
    ELSE <<>>

\* The public URLs of a well-formed image collection, in input order.
Urls(li) ==
    IF IsSome(li)
    THEN [i \in 1..Len(Val(li)) |-> getPublicUrl(Val(Val(li)[i]).storage_path)]
    ELSE <<>>

Occurrences(s, u) == Cardinality({i \in 1..Len(s) : s[i] = u})

IsPermutation(a, b) ==
    /\ Len(a) = Len(b)
    /\ \A i \in 1..Len(b) : Occurrences(a, b[i]) = Occurrences(b, b[i])

RemoveAt(s, p) == SubSeq(s, 1, p - 1) \o SubSeq(s, p + 1, Len(s))

\* a is b with at most one element taken out and put back elsewhere.
OneMoved(a, b) ==
    \/ a = b
    \/ \E p, q \in 1..Len(b) :
          /\ Len(a) = Len(b)
          /\ a[q] = b[p]
          /\ RemoveAt(a, q) = RemoveAt(b, p)

ImagesRearranged(l) ==
    LET li == RowOf(l).listing_images
        urls == Urls(li)
    IN  /\ IsPermutation(l.images, urls)
        /\ OneMoved(l.images, urls)
        /\ (IsSome(li) /\ Primaries(Val(li)) # {}) =>
              \E p \in Primaries(Val(li)) : l.images[1] = urls[p]

\* C11: whatever the primary flags of a row's image collection (none, one or
\* several), the images of its record are a permutation of the resolved URLs
\* of the same length, at most one of them moved from its place, and when an
\* entry is flagged primary the first image is the URL of a flagged entry.
C11_ImagesArePermutation ==
    \A i \in 1..Len(Records) : ImagesRearranged(Records[i])

\* fetchFeaturedApprovedListings returned the record of a row whose second
\* and third images of three are flagged primary: the second comes first.
C11_Witness ==
    /\ Done /\ op = "fetchFeaturedApprovedListings"
    /\ \E i \in 1..Len(result) :
          LET li == RowOf(result[i]).listing_images IN
          /\ IsSome(li) /\ WellFormed(RowOf(result[i]))
          /\ Len(Val(li)) = 3
          /\ Primaries(Val(li)) = {2, 3}
          /\ result[i].images = <<getPublicUrl(2), getPublicUrl(1), getPublicUrl(3)>>

NoImages(row) == row.listing_images = None \/ row.listing_images = Some(<<>>)

\* C12: a selected row whose nested image collection is empty or missing is
\* returned, with images the empty sequence; nothing is raised.
C12_RowWithoutImagesReturned ==
    Done =>
        /\ ~raised
        /\ op \in ListOps \cup {"fetchApprovedListingById"} =>
              \A j \in 1..Len(response.rows) :
                  NoImages(response.rows[j]) =>
                      \E i \in 1..Len(Records) :
                          /\ Records[i].id = response.rows[j].id
                          /\ Records[i].images = <<>>

\* fetchApprovedListings returned, with no images, the record of a row whose
\* image collection is missing.
C12_Witness ==
    /\ Done /\ op = "fetchApprovedListings"
    /\ \E j \in 1..Len(response.rows) :
          /\ response.rows[j].listing_images = None
          /\ \E i \in 1..Len(result) :
                result[i].id = response.rows[j].id /\ result[i].images = <<>>

FeaturedDone == pc = "done" /\ op = "fetchFeaturedApprovedListings"

IsApproved(row) == row.status = StatusApproved

Min(a, b) == IF a <= b THEN a ELSE b

\* The creation time a row's record shows: a row without one shows the time
\* of the call.
CreatedAt(row, now) == IF IsSome(row.created_at) THEN Val(row.created_at) ELSE now

C14_FeaturedByEntryPoint ==
    \A i \in 1..Len(Records) :
        Records[i].featured = (op = "fetchFeaturedApprovedListings")

\* fetchFeaturedApprovedListings returned records, all of them featured,
\* one of them made from a row with images.
C14_Witness ==
    /\ FeaturedDone
    /\ Len(result) >= 2
    /\ \A i \in 1..Len(result) : result[i].featured
    /\ \E i \in 1..Len(result) : result[i].images # <<>>

ByIdDone == pc = "done" /\ op = "fetchApprovedListingById"

\* C15: fetchApprovedListingById(id) returns the record of id `id` when the
\* store answers, holds an approved row of that id and that row normalizes;
\* it returns null otherwise (no such row, row not approved, store failure,
\* normalization failure).
C15_ByIdApprovedOrNull ==
    ByIdDone =>
        LET Hit(row) == row.id = reqId /\ IsApproved(row) /\ WellFormed(row)
        IN  IF Answered /\ \E j \in 1..Len(store) : Hit(store[j])
            THEN /\ IsSome(result)
                 /\ Val(result).id = reqId
                 /\ Val(result).status = StatusApproved
            ELSE result = None

\* The store answered a request for the id of a pending row: null.
C15_Witness ==
    /\ ByIdDone /\ Answered
    /\ \E j \in 1..Len(store) : store[j].id = reqId /\ store[j].status = "pending"
    /\ result = None

CountDone == pc = "done" /\ op = "countApprovedListings"

\* C16: countApprovedListings returns the number of rows whose status is
\* approved when the store answers with a count, and 0 when the store reports
\* an error, the request fails or the count is null.
C16_CountsApprovedRows ==
    CountDone =>
        result = IF Answered /\ IsSome(response.count)
                 THEN Cardinality({j \in 1..Len(store) : IsApproved(store[j])})
                 ELSE 0

\* Over a table of two approved rows and a rejected one the count is 2.
C16_Witness ==
    /\ CountDone /\ Answered
    /\ Len(store) = 3
    /\ Cardinality({j \in 1..Len(store) : store[j].status = "rejected"}) = 1
    /\ result = 2

\* A number column as the record shows it: 0 for null and for 0.
NumberShown(x) == IF x = None \/ x = Some(0) THEN 0 ELSE Val(x)

\* A text column as the record shows it: d for null and for ''.
TextShown(x, d) == IF x = None \/ x = Some(<<>>) THEN d ELSE Val(x)

DefaultsApplied(l) ==
    LET row == RowOf(l) IN
    /\ l.title = TextShown(row.title, <<"Untitled Listing">>)
    /\ l.description = TextShown(row.description, <<>>)
    /\ l.price = NumberShown(row.price)
    /\ l.location.address = TextShown(row.address, <<>>)
    /\ l.location.city = TextShown(row.city, <<>>)
    /\ l.location.state = TextShown(row.state, <<>>)
    /\ l.location.lat = NumberShown(row.latitude)
    /\ l.location.lng = NumberShown(row.longitude)
    /\ l.numSites = NumberShown(row.num_sites)
    /\ l.occupancyRate = NumberShown(row.occupancy_rate)
    /\ l.annualRevenue = NumberShown(row.annual_revenue)
    /\ l.capRate = NumberShown(row.cap_rate)
    /\ l.status = IF row.status = "" THEN "approved" ELSE row.status

\* C17: in every returned record each number column that is null or 0 shows
\* as 0 (price, latitude, longitude, num_sites, occupancy_rate,
\* annual_revenue, cap_rate), each of description, address, city and state
\* that is null or '' shows as '', such a title shows as 'Untitled Listing'
\* and such a status as 'approved'; every other value is copied unchanged.
C17_FalsyValuesDefaulted ==
    \A i \in 1..Len(Records) : DefaultsApplied(Records[i])

\* fetchApprovedListingById returned price 0 for a row whose price is null.
C17_Witness ==
    /\ ByIdDone /\ IsSome(result)
    /\ RowOf(Val(result)).price = None
    /\ Val(result).price = 0
    /\ Val(result).numSites = 50

\* C18: a call issues one query and no more: none before it starts, one
\* while it awaits and when it has returned; an attempt that fails ends the
\* call with the operation's soft result.
C18_SingleAttempt ==
    /\ pc = "idle" => issued = 0
    /\ pc \in {"await", "done"} => issued = 1
    /\ (pc = "done" /\ response.kind # "data") => SoftResult

\* The request of fetchApprovedListingById for the id of an approved row was
\* rejected: the call returned null after its one query.
C18_Witness ==
    /\ ByIdDone /\ response.kind = "throw"
    /\ \E j \in 1..Len(store) : store[j].id = reqId /\ IsApproved(store[j])
    /\ issued = 1
    /\ result = None

\* What a call of the operation with these arguments can return when its
\* query executes over the table: its answer normalized, or the soft result
\* of a failure.
Outcomes(name, fo, id, table) ==
    {ReturnOf(name, reply, now).value :
        reply \in {Execute(table, QueryOf(name, fo, id)),
                   Reply("error", "fault", <<>>, None),
                   Reply("throw", "network", <<>>, None)}
                  \cup (IF name = "countApprovedListings" THEN {NullCount} ELSE {}),
        now \in Clock}

\* C19: under every interleaving of two overlapping calls and of changes to
\* the table by another client, no step of a call changes the table, and a
\* call that completes returns what its own operation and arguments yield
\* over the table as it is at that step, whatever the other call is doing or
\* has returned.
C19_CallsReadOnlyIndependent ==
    [][/\ (pc' # pc \/ other' # other) => store' = store
       /\ (pc = "await" /\ pc' = "done") =>
             result' \in Outcomes(op, filters, reqId, store)
       /\ (other.pc = "await" /\ other'.pc = "done") =>
             other'.result \in Outcomes(other.op, other.filters, other.reqId, store)
      ]_vars

\* Two overlapping calls of countApprovedListings were both answered and
\* returned different counts: the table changed between their queries.
C19_Witness ==
    /\ CountDone /\ Answered
    /\ other.pc = "done" /\ other.op = "countApprovedListings"
    /\ other.response.cause = "none"
    /\ IsSome(response.count) /\ IsSome(other.response.count)
    /\ result # other.result

ProtectedPages == {"UserProfile", "BrokerDashboard", "AddListing", "ListingEdit"}

\* The protected page of a pathname: /profile, /broker/dashboard,
\* /listings/new and /listings/<slug>/edit; "" for every other pathname.
ProtectedPageAt(pathname) ==
    IF pathname = <<"profile">> THEN "UserProfile"
    ELSE IF pathname = <<"broker", "dashboard">> THEN "BrokerDashboard"
    ELSE IF pathname = <<"listings", "new">> THEN "AddListing"
    ELSE IF Len(pathname) = 3 /\ pathname[1] = "listings" /\ pathname[3] = "edit"
         THEN "ListingEdit"
    ELSE ""

AdminPages == {"AdminDashboard", "SupportTickets"}

\* C21: AdminRoute renders its admin children only when loading is false,
\* verifying is false, user is non-null and isAdmin is true; while it is
\* mounted it shows the 'Verifying admin access...' loader alone as long as
\* loading or verifying holds, and once both are false it redirects a visitor
\* without a user to /login (with the location in the navigation state) and
\* a signed-in user who is not an admin to /.
C21_AdminChildrenNeedAdmin ==
    /\ (screen.kind = "page" /\ screen.name \in AdminPages) =>
          /\ adminRoute.mounted
          /\ ~auth.loading /\ ~adminRoute.verifying
          /\ auth.user # None /\ auth.isAdmin
    /\ adminRoute.mounted =>
          IF auth.loading \/ adminRoute.verifying
          THEN screen.kind = "loader" /\ screen.name = "Verifying admin access..."
          ELSE IF auth.user = None
               THEN /\ screen.kind = "navigate"
                    /\ screen.to = <<"login">>
                    /\ screen.state = Some([from |-> location])
          ELSE IF ~auth.isAdmin
               THEN screen.kind = "navigate" /\ screen.to = <<>> /\ screen.state = None
          ELSE /\ screen.kind = "page"
               /\ screen.name = MatchedRoute(location.pathname).element
               /\ screen.name \in AdminPages

\* The verification of a signed-in user who is not an admin has finished at
\* /admin/dashboard: the route redirects to /.
C21_Witness ==
    /\ adminRoute.mounted /\ ~adminRoute.verifying /\ ~auth.loading
    /\ auth.user # None /\ ~auth.isAdmin
    /\ location.pathname = <<"admin", "dashboard">>
    /\ screen.kind = "navigate" /\ screen.to = <<>>

\* C22: admin children are never rendered for a user for whom
\* hasPermission('admin.access') is false.
C22_ChildrenNeedPermission ==
    (screen.kind = "page" /\ screen.name \in AdminPages) =>
        hasPermission(auth, "admin.access")

\* C23: under a stable authentication state (loading false; no user, a
\* signed-in non-admin or a signed-in admin) and from every start path, the
\* redirects of the protected routes, of /login, /register and
\* /forgot-password and of AdminRoute come to an end: from some point on the
\* screen is a rendered page (AccessDenied on a host that is not allowed)
\* and no Navigate.
C23_RedirectsEnd == <>[](screen.kind \in {"page", "denied"})

\* A visitor without a user was sent from /admin/dashboard to /login, where
\* the Login page is rendered.
C23_Witness ==
    /\ auth.user = None
    /\ location.pathname = <<"login">>
    /\ location.state = Some([from |-> [pathname |-> <<"admin", "dashboard">>, state |-> None]])
    /\ screen.kind = "page" /\ screen.name = "Login"

\* The avatar shows an image: a user is signed in, imageLoadAttempted is
\* true and profileImageUrl is non-null.
AvatarShown ==
    /\ IsSome(authSection.user)
    /\ authSection.imageLoadAttempted
    /\ IsSome(authSection.profileImageUrl)

\* C24: whenever AuthSection shows an avatar image URL it is the profile
\* image URL of the user who is signed in now, never that of a previous
\* user.
C24_AvatarOfCurrentUser ==
    AvatarShown => authSection.profileImageUrl = Some(PublicUrl(Val(authSection.user)))

\* The cache without the entry of user u.
Forgotten(cache, u) == [cache EXCEPT ![u] = None]

\* C25: when the user changes to one with a cache entry younger than 5
\* minutes, the URL shown is taken from the entry and no store query is
\* issued; an entry of 5 minutes or more changes nothing (the step is the one
\* taken without the entry); and a fetch that completes writes an entry,
\* stamped with the current time, for the user it was started for and for no
\* other.
C25_CacheUsedWhileFresh ==
    [][/\ (authSection'.user # authSection.user /\ IsSome(authSection'.user)) =>
             LET u == Val(authSection'.user) IN
             /\ CachedValid(profileImageCache, u, dateNow) =>
                   /\ authSection'.profileImageUrl = OrNull(Val(profileImageCache[u]).url)
                   /\ authSection'.imageLoadAttempted
                   /\ authSection'.fetches = authSection.fetches
             /\ ~CachedValid(profileImageCache, u, dateNow) =>
                   authSection' = Settle([authSection EXCEPT !.user = Some(u)], authSection,
                                         FALSE, Forgotten(profileImageCache, u), dateNow)
       /\ \A u \in authSection.fetches \ authSection'.fetches :
             /\ IsSome(profileImageCache'[u])
             /\ Val(profileImageCache'[u]).timestamp = dateNow
             /\ Val(profileImageCache'[u]).url \in {<<>>, PublicUrl(u)}
             /\ \A v \in UserIds \ {u} : profileImageCache'[v] = profileImageCache[v]
       /\ authSection'.fetches = authSection.fetches => profileImageCache' = profileImageCache
      ]_vars

\* The entry of the signed-in user is 5 minutes old or older and a new
\* fetch for that user is in flight.
C25_Witness ==
    /\ IsSome(authSection.user)
    /\ IsSome(profileImageCache[Val(authSection.user)])
    /\ ~CachedValid(profileImageCache, Val(authSection.user), dateNow)
    /\ Val(authSection.user) \in authSection.fetches

\* C26: at most one profile_images row of the user has is_active = true,
\* after any sequence of uploads and deletions.
C26_OneActiveImage == Cardinality(ActiveImages(profileImages, "u1")) <= 1

\* C27: no two email_subscriptions rows hold the same email: handleSubscribe
\* inserts a row only for an email that has none, also when two submissions
\* of the same email overlap.
C27_OneRowPerEmail ==
    \A i, j \in 1..Len(emailSubscriptions) :
        i # j => emailSubscriptions[i].email # emailSubscriptions[j].email

\* C28: after the Support page started loading the form script, eventually
\* formLoaded or formLoadError is true: the 'Loading support form...'
\* spinner is not shown forever.
C28_LoadingEnds == <>(support.formLoaded \/ support.formLoadError)

====
